---------------------------- MODULE Spec2Model ----------------------------
(***************************************************************************)
(* Model of the response and event parsers of amazon_transcribe            *)
(* (deserialize.py): TranscribeStreamingResponseParser.parse_exception and *)
(* TranscribeStreamingEventParser.parse, with the Python values they       *)
(* operate on.                                                             *)
(* Around them: the outbound events and their encoders (model.py,          *)
(* serialize.py), the frame codec, the bounded buffer of the outbound half *)
(* and the receive loop of the inbound half.                               *)
(*                                                                         *)
(* Specifications: Spec (one parser call), OutboundSpec and                *)
(* OutboundFairSpec (producer, buffer, transport), InboundSpec (transport, *)
(* decode, dispatch, consumer), DuplexSpec (both halves of one session),   *)
(* CodecSpec (encode and decode of one frame).                             *)
(*                                                                         *)
(* Python values are tagged records [t, v]:                                *)
(*   None                         [t |-> "None"]                           *)
(*   str   (a sequence of atoms)  [t |-> "str",  v |-> <<...>>]            *)
(*   int / float                  [t |-> "num",  v |-> n]                  *)
(*   bool                         [t |-> "bool", v |-> b]                  *)
(*   list                         [t |-> "list", v |-> <<values>>]         *)
(*   dict  (string-keyed)         [t |-> "dict", v |-> function]           *)
(*   model objects                [t |-> "obj",  cls |-> name, ...]        *)
(* A str is a sequence of atoms: each atom is either the character ":" or  *)
(* an indivisible run of characters holding no ":".                        *)
(*                                                                         *)
(* The outcome of a call is [tag |-> "return", value |-> v] or             *)
(* [tag |-> "raise", exc |-> [cls |-> class name, args |-> <<...>>]].      *)
(***************************************************************************)
EXTENDS Integers, Sequences, FiniteSets, TLC

VARIABLES call, raw_event, http_response, body_bytes, result,
          send_pc, sends, pending, buffer, closed, wire, eof,
          in_pc, stream, delivered, retained, decoded, yielded,
          codec_pc, codec_in, codec_buf, codec_calls

\* one parser call: the call, its input and its outcome
parser_vars == <<call, raw_event, http_response, body_bytes, result>>

\* the outbound half: the producer's position, the send calls made so far,
\* the units of a suspended write, the buffer, the units the transport has
\* taken, whether it has seen the end of the stream
outbound_vars == <<send_pc, sends, pending, buffer, closed, wire, eof>>

\* the inbound half: the consumer's position, the units the service sends,
\* how many of them the transport has delivered, the delivered units not yet
\* decoded, the frames decoded so far, the items the consumer has observed
inbound_vars == <<in_pc, stream, delivered, retained, decoded, yielded>>

\* the frame codec used on its own: the caller's position, the headers and
\* payload given to encode, the units presented to decode, and the outcomes
\* of the decode calls made so far
codec_vars == <<codec_pc, codec_in, codec_buf, codec_calls>>

vars == <<call, raw_event, http_response, body_bytes, result,
          send_pc, sends, pending, buffer, closed, wire, eof,
          in_pc, stream, delivered, retained, decoded, yielded,
          codec_pc, codec_in, codec_buf, codec_calls>>

---------------------------------------------------------------------------
(* Bounds of the input space.                                              *)

\* most atoms that follow the first atom of a header value
\* (x-amzn-errortype, :exception-type)
MaxSuffix == 2

\* longest Transcript.Results list drawn for a TranscriptEvent payload
MaxResults == 2

\* longest audio chunk handed to send_audio_event, in bytes
MaxChunk == 2

\* most send calls issued on the outbound half
MaxSends == 2

\* capacity of the outbound buffer, in units
Capacity == 3

\* most units one read of the transport asks for
MaxRead == 2

\* most frames the service sends on the inbound half
MaxFrames == 2

\* bytes of a payload given to the codec
MaxPayload == 5

---------------------------------------------------------------------------
(* Python values.                                                          *)

None == [t |-> "None"]

PStr(s) == [t |-> "str", v |-> s]

PNum(n) == [t |-> "num", v |-> n]

PBool(b) == [t |-> "bool", v |-> b]

PList(q) == [t |-> "list", v |-> q]

PDict(f) == [t |-> "dict", v |-> f]

\* a one-atom str
S(a) == PStr(<<a>>)

EmptyDict == [k \in {} |-> None]

Return(v) == [tag |-> "return", value |-> v]

Raise(cls) == [tag |-> "raise", exc |-> [cls |-> cls, args |-> <<>>]]

\* raise of an exception object that was built by the code
RaiseExc(e) == [tag |-> "raise", exc |-> e]

\* Python's class hierarchy, as far as the except clauses of the code read it
IsSubclass(cls, base) ==
    \/ cls = base
    \/ base = "ValueError" /\ cls \in {"JSONDecodeError", "UnicodeDecodeError"}

---------------------------------------------------------------------------
(* Built-in operations of Python the parsers use.                          *)

\* json.loads(bytes): bytes that are no UTF-8 text raise UnicodeDecodeError,
\* text that is no JSON document raises JSONDecodeError, a JSON document
\* yields its value (null is None)
json_loads(b) ==
    CASE b.form = "undecodable" -> Raise("UnicodeDecodeError")
      [] b.form = "text"        -> Raise("JSONDecodeError")
      [] b.form = "json"        -> Return(b.doc)

\* x in container
py_in(x, c) ==
    CASE c.t = "dict" -> Return(PBool(x.t = "str" /\ Len(x.v) = 1 /\ x.v[1] \in DOMAIN c.v))
      [] c.t = "list" -> Return(PBool(\E i \in 1..Len(c.v) : c.v[i] = x))
      [] c.t = "str"  ->
           IF x.t # "str" THEN Raise("TypeError")
           ELSE Return(PBool(\E i \in 0..(Len(c.v) - Len(x.v)) :
                                \A j \in 1..Len(x.v) : c.v[i + j] = x.v[j]))
      [] OTHER        -> Raise("TypeError")

\* container[key], key a str
py_getitem(c, key) ==
    CASE c.t = "dict" ->
           IF Len(key.v) = 1 /\ key.v[1] \in DOMAIN c.v
           THEN Return(c.v[key.v[1]])
           ELSE Raise("KeyError")
      [] OTHER -> Raise("TypeError")

\* node.get(key, default): only a dict has it
py_get(node, key, default) ==
    IF node.t = "dict"
    THEN Return(IF key \in DOMAIN node.v THEN node.v[key] ELSE default)
    ELSE Raise("AttributeError")

\* the keys of a dict, as a sequence (the model keeps no insertion order:
\* the payloads drawn put at most one key in a dict that gets iterated where
\* the order could show)
keys_of(f) ==
    CHOOSE q \in [1..Cardinality(DOMAIN f) -> DOMAIN f] :
        \A k \in DOMAIN f : \E i \in DOMAIN q : q[i] = k

\* the elements  for e in node  iterates over
py_iter(node) ==
    CASE node.t = "list" -> Return(node.v)
      [] node.t = "str"  -> Return([i \in 1..Len(node.v) |-> S(node.v[i])])
      [] node.t = "dict" -> Return(LET ks == keys_of(node.v)
                                   IN  [i \in 1..Len(ks) |-> S(ks[i])])
      [] OTHER           -> Raise("TypeError")

\* str.split(":")[0]
RECURSIVE split_first(_)
split_first(s) ==
    IF s = <<>> \/ Head(s) = ":" THEN <<>>
    ELSE <<Head(s)>> \o split_first(Tail(s))

---------------------------------------------------------------------------
(* TranscribeStreamingResponseParser                                       *)

\* with the suffix after the code kept: error_code is the whole header value
_get_error_code_keeps_suffix(response) ==
    IF "x-amzn-errortype" \in DOMAIN response.headers
    THEN response.headers["x-amzn-errortype"]
    ELSE [t |-> "str", v |-> <<"Unknown">>]

\* with the empty str as the code of a response without the header
_get_error_code_unnamed(response) ==
    IF "x-amzn-errortype" \in DOMAIN response.headers
    THEN PStr(split_first(response.headers["x-amzn-errortype"].v))
    ELSE PStr(<<>>)

\* headers is a dict of header name -> str
_get_error_code(response) ==
    IF "x-amzn-errortype" \in DOMAIN response.headers
    THEN PStr(split_first(response.headers["x-amzn-errortype"].v))
    ELSE S("Unknown")

GenericErrorMessage == S("An unknown error was returned by the service")

_get_error_message(body) ==
    LET loaded == json_loads(body)
        parsed_body == loaded.value
        hasUpper == py_in(S("Message"), parsed_body)
        hasLower == py_in(S("message"), parsed_body)
    IN  IF loaded.tag = "raise"
        THEN IF IsSubclass(loaded.exc.cls, "JSONDecodeError")
             THEN Return(GenericErrorMessage)
             ELSE loaded
        ELSE IF hasUpper.tag = "raise" THEN hasUpper
        ELSE IF hasUpper.value.v THEN py_getitem(parsed_body, S("Message"))
        ELSE IF hasLower.tag = "raise" THEN hasLower
        ELSE IF hasLower.value.v THEN py_getitem(parsed_body, S("message"))
        ELSE Return(GenericErrorMessage)

\* the codes parse_exception compares error_code with
KnownCodes ==
    {"BadRequestException", "ConflictException", "InternalFailureException",
     "LimitExceededException", "ServiceUnavailableException",
     "SerializationException"}

\* an exception object: the class and the constructor's arguments
Exc(cls, args) == [cls |-> cls, args |-> args]

\* a str with its letters lower-cased, atom by atom
LowerAtom(a) ==
    CASE a = "BadRequestException"         -> "badrequestexception"
      [] a = "ConflictException"           -> "conflictexception"
      [] a = "CONFLICTEXCEPTION"           -> "conflictexception"
      [] a = "InternalFailureException"    -> "internalfailureexception"
      [] a = "LimitExceededException"      -> "limitexceededexception"
      [] a = "ServiceUnavailableException" -> "serviceunavailableexception"
      [] a = "SerializationException"      -> "serializationexception"
      [] a = "TotallyNovelError"           -> "totallynovelerror"
      [] OTHER                             -> a

Lower(s) == [i \in DOMAIN s |-> LowerAtom(s[i])]

\* with the codes compared without regard to letter case
parse_exception_ignores_case(response, body) ==
    LET error_code == _get_error_code(response)
        error_message == _get_error_message(body)
        known == {k \in KnownCodes : Lower(error_code.v) = Lower(<<k>>)}
    IN  IF error_message.tag = "raise" THEN error_message
        ELSE IF known # {}
             THEN Return(Exc(CHOOSE k \in known : TRUE, <<error_message.value>>))
        ELSE Return(Exc("UnknownServiceException",
                        <<response.status_code, error_code, error_message.value>>))

\* with two branches of the chain swapped
parse_exception_wrong_kind(response, body) ==
    LET error_code == _get_error_code(response)
        error_message == _get_error_message(body)
    IN  IF error_message.tag = "raise" THEN error_message
        ELSE IF error_code.v = <<"BadRequestException">>
             THEN Return(Exc("ConflictException", <<error_message.value>>))
        ELSE IF Len(error_code.v) = 1 /\ error_code.v[1] \in KnownCodes
             THEN Return(Exc(error_code.v[1], <<error_message.value>>))
        ELSE Return(Exc("UnknownServiceException",
                        <<response.status_code, error_code, error_message.value>>))

parse_exception(response, body) ==
    LET error_code == _get_error_code(response)
        error_message == _get_error_message(body)
    IN  IF error_message.tag = "raise" THEN error_message
        ELSE IF error_code.v = <<"BadRequestException">>
             THEN Return(Exc("BadRequestException", <<error_message.value>>))
        ELSE IF error_code.v = <<"ConflictException">>
             THEN Return(Exc("ConflictException", <<error_message.value>>))
        ELSE IF error_code.v = <<"InternalFailureException">>
             THEN Return(Exc("InternalFailureException", <<error_message.value>>))
        ELSE IF error_code.v = <<"LimitExceededException">>
             THEN Return(Exc("LimitExceededException", <<error_message.value>>))
        ELSE IF error_code.v = <<"ServiceUnavailableException">>
             THEN Return(Exc("ServiceUnavailableException", <<error_message.value>>))
        ELSE IF error_code.v = <<"SerializationException">>
             THEN Return(Exc("SerializationException", <<error_message.value>>))
        ELSE Return(Exc("UnknownServiceException",
                        <<response.status_code, error_code, error_message.value>>))

---------------------------------------------------------------------------
(* TranscribeStreamingEventParser: the nested payload parsers.             *)

\* node.get(key) on a node known to be a dict
G(node, key) == IF key \in DOMAIN node.v THEN node.v[key] ELSE None

\* [f(e) for e in node], given the outcomes of f on the elements: the first
\* element that raises ends the comprehension
Collect(outs) ==
    IF \E i \in DOMAIN outs : outs[i].tag = "raise"
    THEN outs[CHOOSE i \in DOMAIN outs :
                 /\ outs[i].tag = "raise"
                 /\ \A j \in DOMAIN outs : j < i => outs[j].tag # "raise"]
    ELSE Return(PList([i \in DOMAIN outs |-> outs[i].value]))

_parse_item(node) ==
    IF node.t # "dict" THEN Raise("AttributeError")
    ELSE Return([t |-> "obj", cls |-> "Item",
                 start_time |-> G(node, "StartTime"),
                 end_time |-> G(node, "EndTime"),
                 item_type |-> G(node, "Type"),
                 content |-> G(node, "Content"),
                 vocabulary_filter_match |-> G(node, "VocabularyFilterMatch"),
                 speaker |-> G(node, "Speaker"),
                 confidence |-> G(node, "Confidence"),
                 stable |-> G(node, "Stable")])

_parse_item_list(node) ==
    LET it == py_iter(node)
    IN  IF it.tag = "raise" THEN it
        ELSE Collect([i \in DOMAIN it.value |-> _parse_item(it.value[i])])

_parse_entity(node) ==
    IF node.t # "dict" THEN Raise("AttributeError")
    ELSE Return([t |-> "obj", cls |-> "Entity",
                 start_time |-> G(node, "StartTime"),
                 end_time |-> G(node, "EndTime"),
                 category |-> G(node, "Category"),
                 type |-> G(node, "Type"),
                 content |-> G(node, "Content"),
                 confidence |-> G(node, "Confidence")])

\* with an absent list collapsed to the empty list
_parse_entity_list_defaulting(node) ==
    IF node = None THEN Return(PList(<<>>))
    ELSE LET it == py_iter(node)
         IN  IF it.tag = "raise" THEN it
             ELSE Collect([i \in DOMAIN it.value |-> _parse_entity(it.value[i])])

_parse_entity_list(node) ==
    IF node = None THEN Return(None)
    ELSE LET it == py_iter(node)
         IN  IF it.tag = "raise" THEN it
             ELSE Collect([i \in DOMAIN it.value |-> _parse_entity(it.value[i])])

_parse_alternative(node) ==
    IF node.t # "dict" THEN Raise("AttributeError")
    ELSE LET items == _parse_item_list(G(node, "Items"))
             entities == _parse_entity_list(G(node, "Entities"))
         IN  IF items.tag = "raise" THEN items
             ELSE IF entities.tag = "raise" THEN entities
             ELSE Return([t |-> "obj", cls |-> "Alternative",
                          transcript |-> G(node, "Transcript"),
                          items |-> items.value,
                          entities |-> entities.value])

_parse_alternative_list(node) ==
    IF node = None THEN Return(None)
    ELSE LET it == py_iter(node)
         IN  IF it.tag = "raise" THEN it
             ELSE Collect([i \in DOMAIN it.value |-> _parse_alternative(it.value[i])])

_parse_language_with_score(node) ==
    IF node = None THEN Return(None)
    ELSE IF node.t # "dict" THEN Raise("AttributeError")
    ELSE Return([t |-> "obj", cls |-> "LanguageWithScore",
                 language_code |-> G(node, "LanguageCode"),
                 score |-> G(node, "Score")])

_parse_language_identification_list(node) ==
    IF node = None THEN Return(None)
    ELSE LET it == py_iter(node)
         IN  IF it.tag = "raise" THEN it
             ELSE Collect([i \in DOMAIN it.value |-> _parse_language_with_score(it.value[i])])

\* with the payload's LanguageCode copied to the Result
_parse_result_copying_language_code(node) ==
    IF node.t # "dict" THEN Raise("AttributeError")
    ELSE LET alternatives == _parse_alternative_list(G(node, "Alternatives"))
             language_identification ==
                 _parse_language_identification_list(G(node, "LanguageIdentification"))
         IN  IF alternatives.tag = "raise" THEN alternatives
             ELSE IF language_identification.tag = "raise" THEN language_identification
             ELSE Return([t |-> "obj", cls |-> "Result",
                          result_id |-> G(node, "ResultId"),
                          start_time |-> G(node, "StartTime"),
                          end_time |-> G(node, "EndTime"),
                          is_partial |-> G(node, "IsPartial"),
                          alternatives |-> alternatives.value,
                          channel_id |-> G(node, "ChannelId"),
                          language_code |-> G(node, "LanguageCode"),
                          language_identification |-> language_identification.value])

\* Result.__init__: language_code is a keyword the parser never passes
_parse_result(node) ==
    IF node.t # "dict" THEN Raise("AttributeError")
    ELSE LET alternatives == _parse_alternative_list(G(node, "Alternatives"))
             language_identification ==
                 _parse_language_identification_list(G(node, "LanguageIdentification"))
         IN  IF alternatives.tag = "raise" THEN alternatives
             ELSE IF language_identification.tag = "raise" THEN language_identification
             ELSE Return([t |-> "obj", cls |-> "Result",
                          result_id |-> G(node, "ResultId"),
                          start_time |-> G(node, "StartTime"),
                          end_time |-> G(node, "EndTime"),
                          is_partial |-> G(node, "IsPartial"),
                          alternatives |-> alternatives.value,
                          channel_id |-> G(node, "ChannelId"),
                          language_code |-> None,
                          language_identification |-> language_identification.value])

\* with the results collected in reverse
_parse_result_list_reversed(node) ==
    LET it == py_iter(node)
        out == IF it.tag = "raise" THEN it
               ELSE Collect([i \in DOMAIN it.value |-> _parse_result(it.value[i])])
    IN  IF out.tag = "raise" THEN out
        ELSE Return(PList([i \in DOMAIN out.value.v |->
                             out.value.v[Len(out.value.v) + 1 - i]]))

_parse_result_list(node) ==
    LET it == py_iter(node)
    IN  IF it.tag = "raise" THEN it
        ELSE Collect([i \in DOMAIN it.value |-> _parse_result(it.value[i])])

_parse_transcript(node) ==
    IF node.t # "dict" THEN Raise("AttributeError")
    ELSE LET results == _parse_result_list(G(node, "Results"))
         IN  IF results.tag = "raise" THEN results
             ELSE Return([t |-> "obj", cls |-> "Transcript", results |-> results.value])

_parse_transcript_event(node) ==
    IF node.t # "dict" THEN Raise("AttributeError")
    ELSE LET transcript == _parse_transcript(G(node, "Transcript"))
         IN  IF transcript.tag = "raise" THEN transcript
             ELSE Return([t |-> "obj", cls |-> "TranscriptEvent",
                          transcript |-> transcript.value])

_parse_call_analytics_item(node) ==
    IF node.t # "dict" THEN Raise("AttributeError")
    ELSE Return([t |-> "obj", cls |-> "CallAnalyticsItem",
                 begin_offset_millis |-> G(node, "BeginOffsetMillis"),
                 end_offset_millis |-> G(node, "EndOffsetMillis"),
                 item_type |-> G(node, "Type"),
                 content |-> G(node, "Content"),
                 confidence |-> G(node, "Confidence"),
                 vocabulary_filter_match |-> G(node, "VocabularyFilterMatch"),
                 stable |-> G(node, "Stable")])

_parse_call_analytics_item_list(node) ==
    IF node = None THEN Return(None)
    ELSE LET it == py_iter(node)
         IN  IF it.tag = "raise" THEN it
             ELSE Collect([i \in DOMAIN it.value |-> _parse_call_analytics_item(it.value[i])])

_parse_call_analytics_entity(node) ==
    IF node.t # "dict" THEN Raise("AttributeError")
    ELSE Return([t |-> "obj", cls |-> "CallAnalyticsEntity",
                 begin_offset_millis |-> G(node, "BeginOffsetMillis"),
                 end_offset_millis |-> G(node, "EndOffsetMillis"),
                 category |-> G(node, "Category"),
                 entity_type |-> G(node, "Type"),
                 content |-> G(node, "Content"),
                 confidence |-> G(node, "Confidence")])

_parse_call_analytics_entity_list(node) ==
    IF node = None THEN Return(None)
    ELSE LET it == py_iter(node)
         IN  IF it.tag = "raise" THEN it
             ELSE Collect([i \in DOMAIN it.value |-> _parse_call_analytics_entity(it.value[i])])

_parse_character_offsets(node) ==
    IF node.t # "dict" THEN Raise("AttributeError")
    ELSE Return([t |-> "obj", cls |-> "CharacterOffsets",
                 begin |-> G(node, "Begin"),
                 end |-> G(node, "End")])

_parse_issue_detected(node) ==
    IF node.t # "dict" THEN Raise("AttributeError")
    ELSE LET character_offsets == _parse_character_offsets(G(node, "CharacterOffsets"))
         IN  IF character_offsets.tag = "raise" THEN character_offsets
             ELSE Return([t |-> "obj", cls |-> "IssueDetected",
                          character_offsets |-> character_offsets.value])

_parse_issues_detected_list(node) ==
    IF node = None THEN Return(None)
    ELSE LET it == py_iter(node)
         IN  IF it.tag = "raise" THEN it
             ELSE Collect([i \in DOMAIN it.value |-> _parse_issue_detected(it.value[i])])

_parse_utterance_event(node) ==
    IF node.t # "dict" THEN Raise("AttributeError")
    ELSE LET items == _parse_call_analytics_item_list(G(node, "Items"))
             entities == _parse_call_analytics_entity_list(G(node, "Entities"))
             issues_detected == _parse_issues_detected_list(G(node, "IssuesDetected"))
         IN  IF items.tag = "raise" THEN items
             ELSE IF entities.tag = "raise" THEN entities
             ELSE IF issues_detected.tag = "raise" THEN issues_detected
             ELSE Return([t |-> "obj", cls |-> "UtteranceEvent",
                          utterance_id |-> G(node, "UtteranceId"),
                          is_partial |-> G(node, "IsPartial"),
                          participant_role |-> G(node, "ParticipantRole"),
                          begin_offset_millis |-> G(node, "BeginOffsetMillis"),
                          end_offset_millis |-> G(node, "EndOffsetMillis"),
                          transcript |-> G(node, "Transcript"),
                          items |-> items.value,
                          entities |-> entities.value,
                          sentiment |-> G(node, "Sentiment"),
                          issues_detected |-> issues_detected.value])

_parse_category(node) == Return(node)

_parse_matched_categories_list(node) ==
    LET it == py_iter(node)
    IN  IF it.tag = "raise" THEN it
        ELSE Collect([i \in DOMAIN it.value |-> _parse_category(it.value[i])])

_parse_timestamp_range(node) ==
    IF node.t # "dict" THEN Raise("AttributeError")
    ELSE Return([t |-> "obj", cls |-> "TimestampRange",
                 begin_offset_millis |-> G(node, "BeginOffsetMillis"),
                 end_offset_millis |-> G(node, "EndOffsetMillis")])

_parse_timestamp_ranges(node) ==
    LET it == py_iter(node)
    IN  IF it.tag = "raise" THEN it
        ELSE Collect([i \in DOMAIN it.value |-> _parse_timestamp_range(it.value[i])])

_parse_points_of_interest(node) ==
    IF node.t # "dict" THEN Raise("AttributeError")
    ELSE LET timestamp_ranges == _parse_timestamp_ranges(G(node, "TimestampRanges"))
         IN  IF timestamp_ranges.tag = "raise" THEN timestamp_ranges
             ELSE Return([t |-> "obj", cls |-> "PointsOfInterest",
                          timestamp_ranges |-> timestamp_ranges.value])

\* with the keys after the first one dropped
_parse_matched_details_dict_first_key(node) ==
    IF node.t # "dict" THEN Raise("AttributeError")
    ELSE LET ks == keys_of(node.v)
             outs == [i \in 1..Len(ks) |-> _parse_points_of_interest(node.v[ks[i]])]
         IN  IF \E i \in DOMAIN outs : outs[i].tag = "raise"
             THEN Collect(outs)
             ELSE Return(PDict([k \in {ks[i] : i \in DOMAIN ks \cap {1}} |->
                                  _parse_points_of_interest(node.v[k]).value]))

\* current_node.items() exists on a dict only; the loop stops at the first
\* value that raises
_parse_matched_details_dict(node) ==
    IF node.t # "dict" THEN Raise("AttributeError")
    ELSE LET ks == keys_of(node.v)
             outs == [i \in 1..Len(ks) |-> _parse_points_of_interest(node.v[ks[i]])]
         IN  IF \E i \in DOMAIN outs : outs[i].tag = "raise"
             THEN Collect(outs)
             ELSE Return(PDict([k \in DOMAIN node.v |->
                                  _parse_points_of_interest(node.v[k]).value]))

_parse_category_event(node) ==
    IF node.t # "dict" THEN Raise("AttributeError")
    ELSE LET matched_categories ==
                 _parse_matched_categories_list(G(node, "MatchedCategories"))
             matched_details == _parse_matched_details_dict(G(node, "MatchedDetails"))
         IN  IF matched_categories.tag = "raise" THEN matched_categories
             ELSE IF matched_details.tag = "raise" THEN matched_details
             ELSE Return([t |-> "obj", cls |-> "CategoryEvent",
                          matched_categories |-> matched_categories.value,
                          matched_details |-> matched_details.value])

---------------------------------------------------------------------------
(* TranscribeStreamingEventParser: exceptions and the dispatch.            *)

\* headers.get(name): the header's value, None when the frame has none
HeaderGet(headers, name, default) ==
    IF name \in DOMAIN headers THEN headers[name] ELSE default

\* The names deserialize.py imports from amazon_transcribe.exceptions: each
\* is a class of that module.
ExceptionClasses ==
    KnownCodes \cup {"ServiceException", "UnknownServiceException"}

\* getattr(transcribe_exceptions, name, ServiceException): a class of the
\* module, a module attribute that is no class (every Python module has
\* __name__, a str), or the default.  A str of several atoms is none of the
\* names above.
getattr_exceptions(name) ==
    IF Len(name.v) = 1 /\ name.v[1] \in ExceptionClasses
    THEN [kind |-> "class", cls |-> name.v[1]]
    ELSE IF name.v = <<"__name__">>
    THEN [kind |-> "str", cls |-> "str"]
    ELSE [kind |-> "class", cls |-> "ServiceException"]

\* exception_cls(exception_msg): a str is not callable; UnknownServiceException
\* is built from three arguments (status_code, error_code, message) where
\* parse_exception builds it, so one argument does not construct it
instantiate(attr, msg) ==
    IF attr.kind # "class" THEN Raise("TypeError")
    ELSE IF attr.cls = "UnknownServiceException" THEN Raise("TypeError")
    ELSE Return(Exc(attr.cls, <<msg>>))

GenericEventMessage == S("An unknown service exception occured")

\* with the :exception-type header ignored
_parse_event_exception_base_class(event) ==
    LET loaded == json_loads(event.payload)
        raw_body == IF loaded.tag = "raise" THEN PDict(EmptyDict) ELSE loaded.value
        exception_msg == py_get(raw_body, "Message", GenericEventMessage)
    IN  IF exception_msg.tag = "raise" THEN exception_msg
        ELSE Return(Exc("ServiceException", <<exception_msg.value>>))

_parse_event_exception(event) ==
    LET exception_type == HeaderGet(event.headers, ":exception-type", S("ServiceException"))
        exception_cls == getattr_exceptions(exception_type)
        loaded == json_loads(event.payload)
        raw_body == IF loaded.tag = "raise" THEN PDict(EmptyDict) ELSE loaded.value
        exception_msg == py_get(raw_body, "Message", GenericEventMessage)
    IN  IF loaded.tag = "raise" /\ ~IsSubclass(loaded.exc.cls, "ValueError") THEN loaded
        ELSE IF exception_msg.tag = "raise" THEN exception_msg
        ELSE instantiate(exception_cls, exception_msg.value)

\* with the parsers of TranscriptEvent and UtteranceEvent exchanged
parse_exchanged(event) ==
    LET message_type == HeaderGet(event.headers, ":message-type", None)
        event_type == HeaderGet(event.headers, ":event-type", None)
        loaded == json_loads(event.payload)
        raw_body == loaded.value
        exc == _parse_event_exception(event)
    IN  IF message_type \in {S("error"), S("exception")}
        THEN IF exc.tag = "raise" THEN exc ELSE RaiseExc(exc.value)
        ELSE IF message_type = S("event")
        THEN IF loaded.tag = "raise" THEN loaded
             ELSE IF event_type = S("TranscriptEvent") THEN _parse_utterance_event(raw_body)
             ELSE IF event_type = S("UtteranceEvent") THEN _parse_transcript_event(raw_body)
             ELSE IF event_type = S("CategoryEvent") THEN _parse_category_event(raw_body)
             ELSE Return(None)
        ELSE Return(None)

\* with the payload loaded before the message type is looked at
parse_loading_first(event) ==
    LET message_type == HeaderGet(event.headers, ":message-type", None)
        event_type == HeaderGet(event.headers, ":event-type", None)
        loaded == json_loads(event.payload)
        raw_body == loaded.value
        exc == _parse_event_exception(event)
    IN  IF message_type \in {S("error"), S("exception")}
        THEN IF exc.tag = "raise" THEN exc ELSE RaiseExc(exc.value)
        ELSE IF loaded.tag = "raise" THEN loaded
        ELSE IF message_type = S("event")
        THEN IF event_type = S("TranscriptEvent") THEN _parse_transcript_event(raw_body)
             ELSE IF event_type = S("UtteranceEvent") THEN _parse_utterance_event(raw_body)
             ELSE IF event_type = S("CategoryEvent") THEN _parse_category_event(raw_body)
             ELSE Return(None)
        ELSE Return(None)

parse(event) ==
    LET message_type == HeaderGet(event.headers, ":message-type", None)
        event_type == HeaderGet(event.headers, ":event-type", None)
        loaded == json_loads(event.payload)
        raw_body == loaded.value
        exc == _parse_event_exception(event)
    IN  IF message_type \in {S("error"), S("exception")}
        THEN IF exc.tag = "raise" THEN exc ELSE RaiseExc(exc.value)
        ELSE IF message_type = S("event")
        THEN IF loaded.tag = "raise" THEN loaded
             ELSE IF event_type = S("TranscriptEvent") THEN _parse_transcript_event(raw_body)
             ELSE IF event_type = S("UtteranceEvent") THEN _parse_utterance_event(raw_body)
             ELSE IF event_type = S("CategoryEvent") THEN _parse_category_event(raw_body)
             ELSE Return(None)
        ELSE Return(None)

---------------------------------------------------------------------------
(* The inputs the parsers are applied to.                                  *)

\* the atoms header values are made of
Atoms ==
    KnownCodes \cup {"badrequestexception", "CONFLICTEXCEPTION",
                     "TotallyNovelError", "__name__", "detail", ":"}

\* the atoms that follow the first one
SuffixAtoms == {":", "detail", "ConflictException"}

\* the empty str, and every first atom followed by at most MaxSuffix atoms
HeaderStrs ==
    {PStr(<<>>)} \cup
    {PStr(<<a>> \o q) :
        a \in Atoms, q \in UNION {[1..n -> SuffixAtoms] : n \in 0..MaxSuffix}}

Undecodable == [form |-> "undecodable", doc |-> None]

NotJson == [form |-> "text", doc |-> None]

Json(doc) == [form |-> "json", doc |-> doc]

\* the JSON documents of an error body or an exception payload
ErrorDocs ==
    { None, PNum(7), PBool(TRUE), S("oops"), S("Message"),
      PList(<<>>), PList(<<S("Message")>>),
      PDict(EmptyDict),
      PDict([Message |-> S("bad input")]),
      PDict([message |-> S("lower")]),
      PDict([Message |-> S("upper"), message |-> S("lower")]),
      PDict([Message |-> None]) }

Bodies == {Undecodable, NotJson} \cup {Json(d) : d \in ErrorDocs}

StatusCodes == {400, 500}

NoHeaders == [k \in {} |-> None]

\* a header map holding name when v is a str, and nothing when v is None
Hdr(name, v) == IF v = None THEN NoHeaders ELSE (name :> v)

Responses ==
    {[status_code |-> sc, headers |-> Hdr("x-amzn-errortype", h)] :
        sc \in StatusCodes, h \in {None} \cup HeaderStrs}

ItemNode ==
    PDict([StartTime |-> PNum(0), EndTime |-> PNum(1), Type |-> S("pronunciation"),
           Content |-> S("hi"), Confidence |-> PNum(1), Stable |-> PBool(TRUE)])

PunctuationNode ==
    PDict([StartTime |-> PNum(1), EndTime |-> PNum(1), Type |-> S("punctuation"),
           Content |-> S(":")])

EntityNode(type) ==
    PDict([StartTime |-> PNum(0), EndTime |-> PNum(1), Category |-> S("PII"),
           Type |-> S(type), Content |-> S("hi"), Confidence |-> PNum(1)])

ResultNodes ==
    { PDict([ResultId |-> S("r1"), StartTime |-> PNum(0), EndTime |-> PNum(1),
             IsPartial |-> PBool(TRUE), ChannelId |-> S("ch_0"),
             Alternatives |-> PList(<<PDict([Transcript |-> S("hi"),
                                             Items |-> PList(<<ItemNode>>)])>>)]),
      PDict([ResultId |-> S("r2"), IsPartial |-> PBool(FALSE),
             LanguageCode |-> S("en-US"),
             Alternatives |-> PList(<<>>),
             LanguageIdentification |->
                 PList(<<PDict([LanguageCode |-> S("en-US"), Score |-> PNum(1)]),
                         PDict([LanguageCode |-> S("es-US"), Score |-> PNum(0)])>>)]),
      PDict([ResultId |-> S("r3")]),
      PDict([ResultId |-> S("r4"),
             Alternatives |-> PList(<<PDict([Transcript |-> S("no items")])>>)]),
      PDict([ResultId |-> S("r6"),
             Alternatives |->
                 PList(<<PDict([Transcript |-> S(""), Items |-> PList(<<>>),
                                Entities |-> PList(<<>>)]),
                         PDict([Transcript |-> S("hi"),
                                Items |-> PList(<<ItemNode, PunctuationNode>>),
                                Entities |-> PList(<<EntityNode("NAME"),
                                                     EntityNode("EMAIL")>>)])>>),
             LanguageIdentification |-> PList(<<>>)]),
      S("r5") }

ResultLists == {PList(q) : q \in UNION {[1..n -> ResultNodes] : n \in 0..MaxResults}}

TranscriptDocs ==
    {PDict([Transcript |-> PDict([Results |-> r])]) : r \in ResultLists}
    \cup { PDict([Transcript |-> PDict(EmptyDict)]),
           PDict([Transcript |-> PDict([Results |-> PDict(EmptyDict)])]),
           PDict([Transcript |-> PDict([Results |-> S("")])]),
           PDict([Transcript |-> S("text")]) }

CallItemNode ==
    PDict([BeginOffsetMillis |-> PNum(0), EndOffsetMillis |-> PNum(5),
           Type |-> S("pronunciation"), Content |-> S("hi")])

CallPunctuationNode ==
    PDict([BeginOffsetMillis |-> PNum(5), EndOffsetMillis |-> PNum(5),
           Type |-> S("punctuation"), Content |-> S(":")])

CallEntityNode(type) ==
    PDict([BeginOffsetMillis |-> PNum(0), EndOffsetMillis |-> PNum(5),
           Category |-> S("PII"), Type |-> S(type), Content |-> S("hi")])

UtteranceDocs ==
    { PDict([UtteranceId |-> S("u1"), IsPartial |-> PBool(FALSE),
             ParticipantRole |-> S("AGENT"), Transcript |-> S("hi"),
             Items |-> PList(<<CallItemNode, CallPunctuationNode>>),
             Entities |-> PList(<<>>),
             Sentiment |-> S("NEUTRAL"),
             IssuesDetected |->
                 PList(<<PDict([CharacterOffsets |->
                                  PDict([Begin |-> PNum(0), End |-> PNum(2)])])>>)]),
      PDict([UtteranceId |-> S("u2")]),
      PDict([UtteranceId |-> S("u3"), IssuesDetected |-> PList(<<PDict(EmptyDict)>>)]),
      PDict([UtteranceId |-> S("u4"), Items |-> PList(<<>>),
             Entities |-> PList(<<CallEntityNode("NAME"), CallEntityNode("EMAIL")>>),
             IssuesDetected |-> PList(<<>>)]) }

CategoryDocs ==
    { PDict([MatchedCategories |-> PList(<<S("c1")>>),
             MatchedDetails |->
                 PDict([c1 |-> PDict([TimestampRanges |->
                          PList(<<PDict([BeginOffsetMillis |-> PNum(0),
                                         EndOffsetMillis |-> PNum(9)])>>)])])]),
      PDict([MatchedCategories |-> PList(<<>>), MatchedDetails |-> PDict(EmptyDict)]),
      PDict([MatchedCategories |-> PList(<<S("c1")>>)]),
      PDict([MatchedDetails |-> PDict(EmptyDict)]),
      PDict([MatchedCategories |-> PList(<<S("c1")>>),
             MatchedDetails |-> PDict([c1 |-> PDict(EmptyDict)])]),
      PDict([MatchedCategories |-> PList(<<S("c1"), S("c2")>>),
             MatchedDetails |->
                 PDict([c1 |-> PDict([TimestampRanges |->
                          PList(<<PDict([BeginOffsetMillis |-> PNum(0),
                                         EndOffsetMillis |-> PNum(9)])>>)]),
                        c2 |-> PDict([TimestampRanges |->
                          PList(<<PDict([BeginOffsetMillis |-> PNum(1),
                                         EndOffsetMillis |-> PNum(5)]),
                                  PDict([BeginOffsetMillis |-> PNum(7),
                                         EndOffsetMillis |-> PNum(9)])>>)])])]),
      PDict([MatchedCategories |-> PList(<<S("c1")>>),
             MatchedDetails |-> PDict([c1 |-> PDict([TimestampRanges |-> PList(<<>>)]),
                                       c2 |-> PDict(EmptyDict)])]) }

EventPayloads ==
    Bodies \cup {Json(d) : d \in TranscriptDocs \cup UtteranceDocs \cup CategoryDocs}

EventTypes ==
    {S("TranscriptEvent"), S("UtteranceEvent"), S("CategoryEvent"), S("FutureEvent")}

Frame(mt, et, xt, payload) ==
    [headers |-> Hdr(":message-type", mt) @@ Hdr(":event-type", et)
                   @@ Hdr(":exception-type", xt),
     payload |-> payload]

\* frames the service marks as exceptions or errors
ExceptionFrames ==
    {Frame(mt, et, xt, b) :
        mt \in {S("error"), S("exception")}, et \in {None, S("TranscriptEvent")},
        xt \in {None} \cup HeaderStrs, b \in Bodies}

\* frames marked as events
EventFrames ==
    {Frame(S("event"), et, xt, b) :
        et \in {None} \cup EventTypes, xt \in {None, S("BadRequestException")},
        b \in EventPayloads}

\* frames with no message type or one the parser does not know
OtherFrames ==
    {Frame(mt, et, None, b) :
        mt \in {None, S("ping"), S("Event")}, et \in {None} \cup EventTypes,
        b \in {Undecodable, NotJson, Json(None), Json(PDict(EmptyDict))}}

Frames == ExceptionFrames \cup EventFrames \cup OtherFrames

---------------------------------------------------------------------------
(* Outbound events and their encoders (model.py, serialize.py).            *)

\* a bytes object: a sequence of byte values
PBytes(q) == [t |-> "bytes", v |-> q]

\* AudioEvent.__init__: a chunk of None is the empty chunk; BaseEvent keeps
\* the payload it is given
AudioEvent(audio_chunk) ==
    [t |-> "obj", cls |-> "AudioEvent",
     payload |-> IF audio_chunk = None THEN PBytes(<<>>) ELSE audio_chunk]

ChannelDefinition(channel_id, participant_role) ==
    [t |-> "obj", cls |-> "ChannelDefinition",
     channel_id |-> channel_id, participant_role |-> participant_role]

ChannelDefinition__json__(self) ==
    PDict([ChannelId |-> self.channel_id, ParticipantRole |-> self.participant_role])

PostCallAnalyticsSettings(output_location, data_access_role_arn, output_encryption_kms_key_id, content_redaction_output) ==
    [t |-> "obj", cls |-> "PostCallAnalyticsSettings",
     output_location |-> output_location,
     data_access_role_arn |-> data_access_role_arn,
     output_encryption_kms_key_id |-> output_encryption_kms_key_id,
     content_redaction_output |-> content_redaction_output]

\* with the two optional keys always written
PostCallAnalyticsSettings__json__with_nulls(self) ==
    PDict([OutputLocation |-> self.output_location,
           DataAccessRoleArn |-> self.data_access_role_arn,
           OutputEncryptionKMSKeyId |-> self.output_encryption_kms_key_id,
           ContentRedactionOutput |-> self.content_redaction_output])

PostCallAnalyticsSettings__json__(self) ==
    PDict([OutputLocation |-> self.output_location,
           DataAccessRoleArn |-> self.data_access_role_arn]
          @@ (IF self.output_encryption_kms_key_id # None
              THEN [OutputEncryptionKMSKeyId |-> self.output_encryption_kms_key_id]
              ELSE EmptyDict)
          @@ (IF self.content_redaction_output # None
              THEN [ContentRedactionOutput |-> self.content_redaction_output]
              ELSE EmptyDict))

\* ConfigurationEvent.__init__ sets these two attributes only
ConfigurationEvent(channel_definitions, post_call_analytics_settings) ==
    [t |-> "obj", cls |-> "ConfigurationEvent",
     channel_definitions |-> channel_definitions,
     post_call_analytics_settings |-> post_call_analytics_settings]

ConfigurationEvent__json__(self) ==
    PDict([ChannelDefinitions |->
              PList([i \in DOMAIN self.channel_definitions.v |->
                        ChannelDefinition__json__(self.channel_definitions.v[i])])]
          @@ (IF self.post_call_analytics_settings # None
              THEN [PostCallAnalyticsSettings |->
                       PostCallAnalyticsSettings__json__(self.post_call_analytics_settings)]
              ELSE EmptyDict))

\* json.dumps(doc).encode(): the bytes json_loads reads back as doc
json_dumps(doc) == [form |-> "json", doc |-> doc]

\* with the event type of another event kind
AudioEventSerializer_serialize_mislabelled(audio_event) ==
    IF "payload" \notin DOMAIN audio_event THEN Raise("AttributeError")
    ELSE Return([headers |-> (":message-type" :> S("event"))
                             @@ (":event-type" :> S("ConfigurationEvent"))
                             @@ (":content-type" :> S("application/octet-stream")),
                 payload |-> audio_event.payload])

\* with the zero bytes at the end of the payload dropped
AudioEventSerializer_serialize_stripped(audio_event) ==
    LET q == audio_event.payload.v
        n == IF q # <<>> /\ q[Len(q)] = 0 THEN Len(q) - 1 ELSE Len(q)
    IN  Return([headers |-> (":message-type" :> S("event"))
                            @@ (":event-type" :> S("AudioEvent"))
                            @@ (":content-type" :> S("application/octet-stream")),
                payload |-> PBytes(SubSeq(q, 1, n))])

\* AudioEventSerializer.serialize: the three headers and the event's payload
AudioEventSerializer_serialize(audio_event) ==
    IF "payload" \notin DOMAIN audio_event THEN Raise("AttributeError")
    ELSE Return([headers |-> (":message-type" :> S("event"))
                             @@ (":event-type" :> S("AudioEvent"))
                             @@ (":content-type" :> S("application/octet-stream")),
                 payload |-> audio_event.payload])

\* the encoder of a configuration event: its event headers and its JSON form
ConfigurationEventSerializer_serialize(configuration_event) ==
    Return([headers |-> (":message-type" :> S("event"))
                        @@ (":event-type" :> S("ConfigurationEvent"))
                        @@ (":content-type" :> S("application/json")),
            payload |-> json_dumps(ConfigurationEvent__json__(configuration_event))])

\* the event-specific encoder send_event applies
event_serializer_serialize(event) ==
    IF event.cls = "AudioEvent" THEN AudioEventSerializer_serialize(event)
    ELSE ConfigurationEventSerializer_serialize(event)

---------------------------------------------------------------------------
(* The frame codec.  An encoded frame is a sequence of units [t, v]: the   *)
(* two length words and the checksum of the prelude, one unit per header,  *)
(* the units of the payload, the checksum of the message.                  *)

U(tag, v) == [t |-> tag, v |-> v]

\* the checksum over a sequence of units
Crc(q) == U("crc", q)

\* the type tag a header value is encoded with
TypeTag(value) ==
    CASE value.t = "str" -> "string"
      [] value.t = "bool" -> "boolean"
      [] value.t = "num" -> "integer"
      [] value.t = "bytes" -> "byte-array"

\* with every header value read as a string
ValueOf_untyped(tag, raw) == [t |-> "str", v |-> raw]

\* the header value a type tag and the encoded value stand for
ValueOf(tag, raw) ==
    CASE tag = "string" -> [t |-> "str", v |-> raw]
      [] tag = "boolean" -> [t |-> "bool", v |-> raw]
      [] tag = "integer" -> [t |-> "num", v |-> raw]
      [] tag = "byte-array" -> [t |-> "bytes", v |-> raw]

\* the header block: each header with its name, type tag and typed value
HeaderBlock(headers) ==
    LET ks == keys_of(headers)
    IN  [i \in 1..Len(ks) |->
            U("header", <<ks[i], TypeTag(headers[ks[i]]), headers[ks[i]].v>>)]

\* the payload: a bytes object byte by byte, another body as one unit
PayloadBlock(payload) ==
    IF "t" \in DOMAIN payload
    THEN [i \in DOMAIN payload.v |-> U("byte", payload.v[i])]
    ELSE <<U("body", payload)>>

\* units of a frame besides its headers and payload: prelude and checksum
FrameOverhead == 4

\* the largest frame the protocol carries, in units
MaxFrameLen == 8

encode(headers, payload) ==
    LET hs == HeaderBlock(headers)
        body == PayloadBlock(payload)
        total == FrameOverhead + Len(hs) + Len(body)
        lengths == <<U("u32", total), U("u32", Len(hs))>>
        msg == lengths \o <<Crc(lengths)>> \o hs \o body
    IN  IF total > MaxFrameLen THEN Raise("FrameTooLarge")
        ELSE Return(msg \o <<Crc(msg)>>)

Min(a, b) == IF a <= b THEN a ELSE b

\* the headers a header block holds: each name with its value
RECURSIVE HeadersOf(_)
HeadersOf(hs) ==
    IF hs = <<>> THEN NoHeaders
    ELSE (Head(hs).v[1] :> ValueOf(Head(hs).v[2], Head(hs).v[3])) @@ HeadersOf(Tail(hs))

\* the frame a complete encoding holds
FrameFrom(units, header_len) ==
    LET hs == SubSeq(units, 4, 3 + header_len)
        body == SubSeq(units, 4 + header_len, Len(units) - 1)
    IN  [headers |-> HeadersOf(hs),
         payload |-> IF Len(body) = 1 /\ body[1].t = "body" THEN body[1].v
                     ELSE PBytes([i \in DOMAIN body |-> body[i].v])]

\* with Incomplete raised as an error
decode_frame_strict(buf) ==
    IF Len(buf) < 3 THEN Raise("Incomplete")
    ELSE IF buf[3] # Crc(<<buf[1], buf[2]>>) THEN Raise("ChecksumMismatch")
    ELSE IF Len(buf) < buf[1].v THEN Raise("Incomplete")
    ELSE IF buf[buf[1].v] # Crc(SubSeq(buf, 1, buf[1].v - 1)) THEN Raise("ChecksumMismatch")
    ELSE [tag |-> "frame",
          frame |-> FrameFrom(SubSeq(buf, 1, buf[1].v), buf[2].v),
          consumed |-> buf[1].v]

\* decode of the first frame of a buffer: Incomplete while the buffer holds
\* fewer units than the prelude or than the prelude declares,
\* ChecksumMismatch when a checksum is not the one of the units it covers,
\* else the frame and the number of units it took
decode_frame(buf) ==
    IF Len(buf) < 3 THEN [tag |-> "incomplete"]
    ELSE IF buf[3] # Crc(<<buf[1], buf[2]>>) THEN Raise("ChecksumMismatch")
    ELSE IF Len(buf) < buf[1].v THEN [tag |-> "incomplete"]
    ELSE IF buf[buf[1].v] # Crc(SubSeq(buf, 1, buf[1].v - 1)) THEN Raise("ChecksumMismatch")
    ELSE [tag |-> "frame",
          frame |-> FrameFrom(SubSeq(buf, 1, buf[1].v), buf[2].v),
          consumed |-> buf[1].v]

\* the concatenation of a sequence of sequences
RECURSIVE Flatten(_)
Flatten(qs) == IF qs = <<>> THEN <<>> ELSE Head(qs) \o Flatten(Tail(qs))

\* decode(buffer): the complete frames at the start of the buffer and the
\* number of units they take; Incomplete stays inside (the frames before it
\* are returned, the rest is the caller's to retain); ChecksumMismatch fails
\* the call
RECURSIVE decode(_)
decode(buf) ==
    LET got == decode_frame(buf)
    IN  IF got.tag = "incomplete" THEN Return([frames |-> <<>>, consumed |-> 0])
        ELSE IF got.tag = "raise" THEN got
        ELSE LET rest == decode(SubSeq(buf, got.consumed + 1, Len(buf)))
             IN  IF rest.tag = "raise" THEN rest
                 ELSE Return([frames |-> <<got.frame>> \o rest.value.frames,
                              consumed |-> got.consumed + rest.value.consumed])

---------------------------------------------------------------------------
(* The state machine: one parser call on one input.                        *)

Pending == [tag |-> "pending"]

NoEvent == [headers |-> NoHeaders, payload |-> NotJson]

NoResponse == [status_code |-> 0, headers |-> NoHeaders]

\* no parser call is made
ParserIdle ==
    /\ call = "none"
    /\ raw_event = NoEvent
    /\ http_response = NoResponse
    /\ body_bytes = NotJson
    /\ result = Pending

\* the outbound half after construction: nothing sent, the buffer empty
OutboundInit ==
    /\ send_pc = "idle"
    /\ sends = <<>>
    /\ pending = <<>>
    /\ buffer = <<>>
    /\ closed = FALSE
    /\ wire = <<>>
    /\ eof = FALSE

\* no inbound half is iterated
InboundIdle ==
    /\ in_pc = "none"
    /\ stream = <<>>
    /\ delivered = 0
    /\ retained = <<>>
    /\ decoded = <<>>
    /\ yielded = <<>>

\* the codec is not used on its own
CodecIdle ==
    /\ codec_pc = "none"
    /\ codec_in = [headers |-> NoHeaders, payload |-> PBytes(<<>>)]
    /\ codec_buf = <<>>
    /\ codec_calls = <<>>

Init ==
    /\ result = Pending
    /\ \/ /\ call = "parse"
          /\ raw_event \in Frames
          /\ http_response = NoResponse
          /\ body_bytes = NotJson
       \/ /\ call = "parse_exception"
          /\ raw_event = NoEvent
          /\ http_response \in Responses
          /\ body_bytes \in Bodies
    /\ OutboundInit
    /\ InboundIdle
    /\ CodecIdle

\* TranscribeStreamingEventParser.parse(raw_event)
Parse ==
    /\ call = "parse"
    /\ result = Pending
    /\ result' = parse(raw_event)
    /\ UNCHANGED <<call, raw_event, http_response, body_bytes>>
    /\ UNCHANGED <<outbound_vars, inbound_vars, codec_vars>>

\* TranscribeStreamingResponseParser.parse_exception(http_response, body_bytes)
ParseException ==
    /\ call = "parse_exception"
    /\ result = Pending
    /\ result' = parse_exception(http_response, body_bytes)
    /\ UNCHANGED <<call, raw_event, http_response, body_bytes>>
    /\ UNCHANGED <<outbound_vars, inbound_vars, codec_vars>>

Next == Parse \/ ParseException

Spec == Init /\ [][Next]_vars

---------------------------------------------------------------------------
(* The outbound half: a producer sending events into the buffer, the       *)
(* transport draining it.                                                  *)

\* the chunks handed to send_audio_event: None, and the first bytes of a
\* sample, up to MaxChunk of them
AudioChunks ==
    {None, PBytes(<<1>>)} \cup {PBytes([i \in 1..n |-> (i - 1) % 2]) : n \in 0..MaxChunk}

\* the configuration events handed to send_configuration_event
ConfigurationEvents ==
    { ConfigurationEvent(
          PList(<<ChannelDefinition(PNum(0), S("AGENT")),
                  ChannelDefinition(PNum(1), S("CUSTOMER"))>>), None),
      ConfigurationEvent(
          PList(<<ChannelDefinition(PNum(1), S("AGENT"))>>),
          PostCallAnalyticsSettings(S("s3://bucket/out"), S("arn:role"),
                                    None, S("redacted"))),
      ConfigurationEvent(
          PList(<<ChannelDefinition(PNum(1), S("CUSTOMER")),
                  ChannelDefinition(PNum(0), S("AGENT"))>>),
          PostCallAnalyticsSettings(S("s3://bucket/out"), S("arn:role"),
                                    S("kms-key"), None)),
      ConfigurationEvent(
          PList(<<ChannelDefinition(PNum(0), S("AGENT"))>>),
          PostCallAnalyticsSettings(S("s3://bucket/out"), S("arn:role"),
                                    S("kms-key"), S("redacted_and_unredacted"))),
      ConfigurationEvent(
          PList(<<>>),
          PostCallAnalyticsSettings(S("s3://bucket/out"), S("arn:role"),
                                    None, None)) }

\* free room of the buffer
Room == Capacity - Len(buffer)

\* with the frame put in front of what the buffer holds
send_event_in_front(event) ==
    LET serialized == event_serializer_serialize(event)
        encoded == IF serialized.tag = "raise" THEN serialized
                   ELSE encode(serialized.value.headers, serialized.value.payload)
        n == Min(Room, Len(encoded.value))
        failed == IF encoded.tag = "raise" THEN encoded ELSE Raise("StreamClosed")
    IN  IF encoded.tag = "raise" \/ closed
        THEN [sends |-> Append(sends, [event |-> event, outcome |-> failed]),
              buffer |-> buffer, pending |-> pending, send_pc |-> send_pc]
        ELSE [sends |-> Append(sends, [event |-> event, outcome |-> serialized]),
              buffer |-> SubSeq(encoded.value, 1, n) \o buffer,
              pending |-> SubSeq(encoded.value, n + 1, Len(encoded.value)),
              send_pc |-> IF n = Len(encoded.value) THEN "idle" ELSE "writing"]

\* with the whole frame written whatever room the buffer has
send_event_unbounded(event) ==
    LET serialized == event_serializer_serialize(event)
        encoded == IF serialized.tag = "raise" THEN serialized
                   ELSE encode(serialized.value.headers, serialized.value.payload)
        failed == IF encoded.tag = "raise" THEN encoded ELSE Raise("StreamClosed")
    IN  IF encoded.tag = "raise" \/ closed
        THEN [sends |-> Append(sends, [event |-> event, outcome |-> failed]),
              buffer |-> buffer, pending |-> pending, send_pc |-> send_pc]
        ELSE [sends |-> Append(sends, [event |-> event, outcome |-> serialized]),
              buffer |-> buffer \o encoded.value,
              pending |-> <<>>,
              send_pc |-> "idle"]

\* with the frame written whether or not the buffer is closed
send_event_ignoring_close(event) ==
    LET serialized == event_serializer_serialize(event)
        encoded == IF serialized.tag = "raise" THEN serialized
                   ELSE encode(serialized.value.headers, serialized.value.payload)
        n == Min(Room, Len(encoded.value))
    IN  IF encoded.tag = "raise"
        THEN [sends |-> Append(sends, [event |-> event, outcome |-> encoded]),
              buffer |-> buffer, pending |-> pending, send_pc |-> send_pc]
        ELSE [sends |-> Append(sends, [event |-> event, outcome |-> serialized]),
              buffer |-> buffer \o SubSeq(encoded.value, 1, n),
              pending |-> SubSeq(encoded.value, n + 1, Len(encoded.value)),
              send_pc |-> IF n = Len(encoded.value) THEN "idle" ELSE "writing"]

\* BaseStream.send_event: the event goes through its encoder and the frame
\* codec, and the frame is written to the buffer.  A write to a closed
\* buffer fails with StreamClosed; a write puts in the buffer what there is
\* room for and is suspended with the rest.  The value is the outcome the
\* call is logged with and the producer's state after the step.
send_event(event) ==
    LET serialized == event_serializer_serialize(event)
        encoded == IF serialized.tag = "raise" THEN serialized
                   ELSE encode(serialized.value.headers, serialized.value.payload)
        n == Min(Room, Len(encoded.value))
        failed == IF encoded.tag = "raise" THEN encoded ELSE Raise("StreamClosed")
    IN  IF encoded.tag = "raise" \/ closed
        THEN [sends |-> Append(sends, [event |-> event, outcome |-> failed]),
              buffer |-> buffer, pending |-> pending, send_pc |-> send_pc]
        ELSE [sends |-> Append(sends, [event |-> event, outcome |-> serialized]),
              buffer |-> buffer \o SubSeq(encoded.value, 1, n),
              pending |-> SubSeq(encoded.value, n + 1, Len(encoded.value)),
              send_pc |-> IF n = Len(encoded.value) THEN "idle" ELSE "writing"]

\* AudioStream.send_audio_event(audio_chunk)
SendAudioEvent ==
    /\ send_pc = "idle"
    /\ Len(sends) < MaxSends
    /\ \E audio_chunk \in AudioChunks :
          LET after == send_event(AudioEvent(audio_chunk))
          IN  /\ sends' = after.sends
              /\ buffer' = after.buffer
              /\ pending' = after.pending
              /\ send_pc' = after.send_pc
    /\ UNCHANGED <<closed, wire, eof>>
    /\ UNCHANGED <<parser_vars, inbound_vars, codec_vars>>

\* AudioStream.send_configuration_event(configuration_event)
SendConfigurationEvent ==
    /\ send_pc = "idle"
    /\ Len(sends) < MaxSends
    /\ \E configuration_event \in ConfigurationEvents :
          LET after == send_event(configuration_event)
          IN  /\ sends' = after.sends
              /\ buffer' = after.buffer
              /\ pending' = after.pending
              /\ send_pc' = after.send_pc
    /\ UNCHANGED <<closed, wire, eof>>
    /\ UNCHANGED <<parser_vars, inbound_vars, codec_vars>>

\* with the suspended write woken only when all its units fit
WriteResume_whole_fit ==
    /\ send_pc = "writing"
    /\ Room >= Len(pending)
    /\ buffer' = buffer \o pending
    /\ pending' = <<>>
    /\ send_pc' = "idle"
    /\ UNCHANGED <<sends, closed, wire, eof>>
    /\ UNCHANGED <<parser_vars, inbound_vars, codec_vars>>

\* a suspended write goes on once the buffer has room
WriteResume ==
    /\ send_pc = "writing"
    /\ Room > 0
    /\ LET n == Min(Room, Len(pending))
       IN  /\ buffer' = buffer \o SubSeq(pending, 1, n)
           /\ pending' = SubSeq(pending, n + 1, Len(pending))
           /\ send_pc' = IF n = Len(pending) THEN "idle" ELSE "writing"
    /\ UNCHANGED <<sends, closed, wire, eof>>
    /\ UNCHANGED <<parser_vars, inbound_vars, codec_vars>>

\* the producer ends the stream: no more writes
Close ==
    /\ send_pc = "idle"
    /\ ~closed
    /\ closed' = TRUE
    /\ UNCHANGED <<send_pc, sends, pending, buffer, wire, eof>>
    /\ UNCHANGED <<parser_vars, inbound_vars, codec_vars>>

\* the transport reads at most max units: what the buffer holds, the end of
\* the stream once it is closed and drained, again at every later read; on
\* an empty open buffer the read is suspended
TransportRead ==
    /\ \E max \in 1..MaxRead :
          IF buffer # <<>>
          THEN LET n == Min(max, Len(buffer))
               IN  /\ wire' = wire \o SubSeq(buffer, 1, n)
                   /\ buffer' = SubSeq(buffer, n + 1, Len(buffer))
                   /\ UNCHANGED eof
          ELSE /\ closed
               /\ eof' = TRUE
               /\ UNCHANGED <<wire, buffer>>
    /\ UNCHANGED <<send_pc, sends, pending, closed>>
    /\ UNCHANGED <<parser_vars, inbound_vars, codec_vars>>

OutboundNext ==
    SendAudioEvent \/ SendConfigurationEvent \/ WriteResume \/ Close \/ TransportRead

\* the outbound half alone: no parser call is made
OutboundStart == ParserIdle /\ OutboundInit /\ InboundIdle /\ CodecIdle

OutboundSpec == OutboundStart /\ [][OutboundNext]_vars

\* the outbound half with a transport that keeps reading and a suspended
\* write that is woken when the buffer has room
OutboundFairSpec ==
    /\ OutboundStart
    /\ [][OutboundNext]_vars
    /\ WF_vars(TransportRead)
    /\ WF_vars(WriteResume)

---------------------------------------------------------------------------
(* The inbound half: the transport delivers the units the service sends in *)
(* chunks, the stream decodes and dispatches one frame after another, the  *)
(* consumer observes events and the end of the sequence.                   *)

\* the frames the service sends
InboundFrames ==
    { Frame(S("event"), S("TranscriptEvent"), None,
            Json(PDict([Transcript |-> PDict([Results |-> PList(<<>>)])]))),
      Frame(S("event"), S("UtteranceEvent"), None,
            Json(PDict([UtteranceId |-> S("u2")]))),
      Frame(S("event"), S("FutureEvent"), None, Json(PDict(EmptyDict))),
      Frame(S("exception"), None, S("BadRequestException"),
            Json(PDict([Message |-> S("bad input")]))),
      Frame(S("event"), S("TranscriptEvent"), None, Json(PDict(EmptyDict))) }

\* the encoding of a frame
Encoded(frame) == encode(frame.headers, frame.payload).value

\* a sequence of units with the checksum at place i replaced by another
Corrupted(units, i) == [units EXCEPT ![i] = Crc(<<>>)]

\* what the service sends: the encodings of at most MaxFrames frames, as
\* they are or with the prelude checksum or the message checksum of one
\* frame damaged on the way
InboundStreams ==
    LET FrameSeqs == UNION {[1..n -> InboundFrames] : n \in 0..MaxFrames}
        Units(fs) == Flatten([i \in DOMAIN fs |-> Encoded(fs[i])])
        Start(fs, k) == Len(Flatten([i \in 1..(k - 1) |-> Encoded(fs[i])]))
    IN  {Units(fs) : fs \in FrameSeqs}
        \cup UNION {{Corrupted(Units(fs), Start(fs, k) + 3) : k \in DOMAIN fs} :
                       fs \in FrameSeqs}
        \cup UNION {{Corrupted(Units(fs), Start(fs, k + 1)) : k \in DOMAIN fs} :
                       fs \in FrameSeqs}

InboundInit ==
    /\ in_pc = "reading"
    /\ stream \in InboundStreams
    /\ delivered = 0
    /\ retained = <<>>
    /\ decoded = <<>>
    /\ yielded = <<>>

\* the stream holds no complete frame and awaits the transport, which
\* delivers the next units, at most MaxRead of them
Receive ==
    /\ in_pc = "reading"
    /\ decode_frame(retained).tag = "incomplete"
    /\ delivered < Len(stream)
    /\ \E max \in 1..MaxRead :
          LET n == Min(max, Len(stream) - delivered)
          IN  /\ retained' = retained \o SubSeq(stream, delivered + 1, delivered + n)
              /\ delivered' = delivered + n
    /\ UNCHANGED <<in_pc, stream, decoded, yielded>>
    /\ UNCHANGED <<parser_vars, outbound_vars, codec_vars>>

\* with nothing observed once the outbound half is closed
dispatch_until_closed(index, frame) ==
    LET parsed == parse(frame)
    IN  IF parsed = Return(None) \/ closed THEN <<>>
        ELSE <<[frame |-> index, item |-> parsed]>>

\* the item the consumer observes for the frame at place index: the event
\* parse returns, the exception it raises, nothing when it returns None
dispatch(index, frame) ==
    LET parsed == parse(frame)
    IN  IF parsed = Return(None) THEN <<>>
        ELSE <<[frame |-> index, item |-> parsed]>>

\* the first frame of the retained units is decoded and dispatched: a
\* checksum that does not match or an exception of the parser ends the
\* sequence with this error
DecodeAndDispatch ==
    /\ in_pc = "reading"
    /\ \E got \in {decode_frame(retained)} :
          /\ got.tag # "incomplete"
          /\ IF got.tag = "raise"
             THEN /\ yielded' = Append(yielded, [frame |-> Len(decoded) + 1, item |-> got])
                  /\ in_pc' = "failed"
                  /\ UNCHANGED <<retained, decoded>>
             ELSE \E items \in {dispatch(Len(decoded) + 1, got.frame)} :
                     /\ decoded' = Append(decoded, got.frame)
                     /\ retained' = SubSeq(retained, got.consumed + 1, Len(retained))
                     /\ yielded' = yielded \o items
                     /\ in_pc' = IF items # <<>> /\ items[1].item.tag = "raise"
                                 THEN "failed" ELSE "reading"
    /\ UNCHANGED <<stream, delivered>>
    /\ UNCHANGED <<parser_vars, outbound_vars, codec_vars>>

\* the transport has delivered everything and closed: the sequence is
\* exhausted
EndOfStream ==
    /\ in_pc = "reading"
    /\ decode_frame(retained).tag = "incomplete"
    /\ delivered = Len(stream)
    /\ in_pc' = "done"
    /\ UNCHANGED <<stream, delivered, retained, decoded, yielded>>
    /\ UNCHANGED <<parser_vars, outbound_vars, codec_vars>>

\* the consumer asks for an item after the error: the sequence is exhausted
PullAfterError ==
    /\ in_pc = "failed"
    /\ in_pc' = "done"
    /\ UNCHANGED <<stream, delivered, retained, decoded, yielded>>
    /\ UNCHANGED <<parser_vars, outbound_vars, codec_vars>>

InboundNext == Receive \/ DecodeAndDispatch \/ EndOfStream \/ PullAfterError

\* the inbound half alone
InboundStart == ParserIdle /\ OutboundInit /\ InboundInit /\ CodecIdle

InboundSpec == InboundStart /\ [][InboundNext]_vars

---------------------------------------------------------------------------
(* The two halves of one StartStreamTranscriptionEventStream: the producer *)
(* and the transport act on input_stream while the consumer iterates       *)
(* output_stream.                                                          *)

\* frames of a short session: two events and the exception that ends it
DuplexFrames ==
    << Frame(S("event"), S("TranscriptEvent"), None,
             Json(PDict([Transcript |-> PDict([Results |-> PList(<<>>)])]))),
       Frame(S("event"), S("UtteranceEvent"), None,
             Json(PDict([UtteranceId |-> S("u2")]))),
       Frame(S("exception"), None, S("BadRequestException"),
             Json(PDict([Message |-> S("bad input")]))) >>

\* what the service sends in the session: the two events; the first event
\* and the exception; the two events with the prelude checksum of the second
\* damaged
DuplexStreams ==
    { Encoded(DuplexFrames[1]) \o Encoded(DuplexFrames[2]),
      Encoded(DuplexFrames[1]) \o Encoded(DuplexFrames[3]),
      Corrupted(Encoded(DuplexFrames[1]) \o Encoded(DuplexFrames[2]),
                Len(Encoded(DuplexFrames[1])) + 3) }

\* StartStreamTranscriptionEventStream(audio_stream, response)
DuplexStart ==
    /\ ParserIdle
    /\ OutboundInit
    /\ CodecIdle
    /\ in_pc = "reading"
    /\ stream \in DuplexStreams
    /\ delivered = 0
    /\ retained = <<>>
    /\ decoded = <<>>
    /\ yielded = <<>>

\* the producer of the session sends one event, audio or configuration
DuplexSend ==
    /\ sends = <<>>
    /\ (SendAudioEvent \/ SendConfigurationEvent)

DuplexNext ==
    \/ DuplexSend
    \/ WriteResume
    \/ Close
    \/ TransportRead
    \/ Receive
    \/ DecodeAndDispatch
    \/ EndOfStream
    \/ PullAfterError

DuplexSpec == DuplexStart /\ [][DuplexNext]_vars

---------------------------------------------------------------------------
(* The frame codec on its own: one frame is encoded and its encoding is    *)
(* given to decode, whole or unit by unit.                                 *)

\* header sets over the type tags
CodecHeaderSets ==
    { NoHeaders,
      (":message-type" :> S("event")),
      (":message-type" :> S("event")) @@ (":event-type" :> S("AudioEvent")),
      ("flag" :> PBool(TRUE)),
      ("count" :> PNum(7)) @@ ("flag" :> PBool(FALSE)),
      ("blob" :> PBytes(<<1, 0>>)) @@ ("name" :> S("x")) @@ ("count" :> PNum(0)) }

\* payloads: byte sequences of up to MaxPayload bytes, and a JSON body
CodecPayloads ==
    {PBytes([i \in 1..n |-> i % 2]) : n \in 0..MaxPayload}
        \cup {Json(PDict([Message |-> S("bad input")]))}

CodecInit ==
    /\ codec_pc = "start"
    /\ codec_in \in [headers : CodecHeaderSets, payload : CodecPayloads]
    /\ codec_buf = <<>>
    /\ codec_calls = <<>>

\* encode(headers, payload) of the frame given
CodecEncoded == encode(codec_in.headers, codec_in.payload)

\* encode fails: the frame is over the size cap
EncodeFails ==
    /\ codec_pc = "start"
    /\ CodecEncoded.tag = "raise"
    /\ codec_calls' = <<CodecEncoded>>
    /\ codec_pc' = "refused"
    /\ UNCHANGED <<codec_in, codec_buf>>
    /\ UNCHANGED <<parser_vars, outbound_vars, inbound_vars>>

\* decode(encode(headers, payload))
DecodeWhole ==
    /\ codec_pc = "start"
    /\ CodecEncoded.tag = "return"
    /\ codec_buf' = CodecEncoded.value
    /\ codec_calls' = <<decode(codec_buf')>>
    /\ codec_pc' = "decoded"
    /\ UNCHANGED codec_in
    /\ UNCHANGED <<parser_vars, outbound_vars, inbound_vars>>

\* the units the caller retains after its last decode call
CodecRetained ==
    IF codec_calls = <<>> \/ codec_calls[Len(codec_calls)].tag = "raise" THEN codec_buf
    ELSE SubSeq(codec_buf, codec_calls[Len(codec_calls)].value.consumed + 1, Len(codec_buf))

\* the next unit of the encoding arrives and the caller calls decode with
\* the units it retained and this one
FeedByte ==
    /\ codec_pc \in {"start", "feeding"}
    /\ CodecEncoded.tag = "return"
    /\ Len(codec_calls) < Len(CodecEncoded.value)
    /\ codec_buf' = Append(CodecRetained, CodecEncoded.value[Len(codec_calls) + 1])
    /\ codec_calls' = Append(codec_calls, decode(codec_buf'))
    /\ codec_pc' = IF Len(codec_calls') = Len(CodecEncoded.value) THEN "fed" ELSE "feeding"
    /\ UNCHANGED codec_in
    /\ UNCHANGED <<parser_vars, outbound_vars, inbound_vars>>

CodecNext == EncodeFails \/ DecodeWhole \/ FeedByte

CodecStart == ParserIdle /\ OutboundInit /\ InboundIdle /\ CodecInit

CodecSpec == CodecStart /\ [][CodecNext]_vars

---------------------------------------------------------------------------
(* Properties.                                                             *)

\* parse has acted on raw_event
Parsed == call = "parse" /\ result.tag # "pending"

\* parse_exception has acted on (http_response, body_bytes)
Mapped == call = "parse_exception" /\ result.tag # "pending"

MessageType == HeaderGet(raw_event.headers, ":message-type", None)

EventType == HeaderGet(raw_event.headers, ":event-type", None)

ExceptionType == HeaderGet(raw_event.headers, ":exception-type", None)

IsExceptionFrame == MessageType \in {S("error"), S("exception")}

KnownStrs == {S(k) : k \in KnownCodes}

RecognizedEventTypes == {S("TranscriptEvent"), S("UtteranceEvent"), S("CategoryEvent")}

\* the kinds of ServiceException of the data model
ClosedKinds == KnownCodes \cup {"UnknownServiceException"}

\* the message an exception object carries: its last constructor argument
MessageOf(e) == e.args[Len(e.args)]

\* the payload is a JSON object
IsJsonObject(b) == b.form = "json" /\ b.doc.t = "dict"

\* the message the mapper is to extract from a body: the value under Message,
\* else the value under message, else the generic message
ExpectedMessage(b) ==
    IF IsJsonObject(b) /\ "Message" \in DOMAIN b.doc.v THEN b.doc.v["Message"]
    ELSE IF IsJsonObject(b) /\ "message" \in DOMAIN b.doc.v THEN b.doc.v["message"]
    ELSE GenericErrorMessage

\* the message extraction yields a message for the body
Extracts(b) == _get_error_message(b).tag = "return"

\* C1: for every frame whose :message-type is event and whose :event-type is
\* none of TranscriptEvent, UtteranceEvent, CategoryEvent, and for every
\* payload (JSON or not), parse returns no event and raises no error.
C1_UnrecognizedEventIsNoOp ==
    (Parsed /\ MessageType = S("event") /\ EventType \notin RecognizedEventTypes)
        => result = Return(None)

\* C2: for every frame whose :message-type is error or exception, whatever
\* its other headers and payload, parse never returns: it raises a
\* ServiceException.
C2_ExceptionFrameRaisesServiceException ==
    (Parsed /\ IsExceptionFrame)
        => result.tag = "raise" /\ result.exc.cls \in ExceptionClasses

\* C3: for every exception frame whose :exception-type names one of the six
\* known kinds and whose JSON payload has a Message key with value m, parse
\* raises the exception of exactly that kind with message m.
C3_KnownExceptionKindAndMessage ==
    (/\ Parsed
     /\ IsExceptionFrame
     /\ ExceptionType \in KnownStrs
     /\ IsJsonObject(raw_event.payload)
     /\ "Message" \in DOMAIN raw_event.payload.doc.v)
        => result = RaiseExc(Exc(ExceptionType.v[1],
                                 <<raw_event.payload.doc.v["Message"]>>))

\* a BadRequestException frame with payload {"Message": "bad input"} has been
\* parsed into BadRequestException("bad input")
C3_Witness ==
    /\ Parsed
    /\ MessageType = S("exception")
    /\ ExceptionType = S("BadRequestException")
    /\ raw_event.payload = Json(PDict([Message |-> S("bad input")]))
    /\ result = RaiseExc(Exc("BadRequestException", <<S("bad input")>>))

\* C4: for every error/exception frame whose :exception-type is absent or no
\* name of the kind table, or whose payload is not parsable JSON, parse fails
\* with the Unknown kind carrying a generic message; and the in-stream
\* exception path raises no exception outside the closed kind set.
C4_FallbackIsUnknownKind ==
    (Parsed /\ IsExceptionFrame)
        => /\ result.tag = "raise"
           /\ result.exc.cls \in ClosedKinds
           /\ (ExceptionType \notin KnownStrs \/ raw_event.payload.form # "json")
                  => /\ result.exc.cls = "UnknownServiceException"
                     /\ MessageOf(result.exc) \in {GenericEventMessage, GenericErrorMessage}

\* the value of the x-amzn-errortype header, None when the response has none
ErrorTypeHeader == HeaderGet(http_response.headers, "x-amzn-errortype", None)

\* C5: parse_exception maps each of the six error codes to the
\* ServiceException kind of the same name, carrying the message extracted
\* from the body; the kind of every result is one of the closed set.
C5_KnownCodeMapsToSameKind ==
    Mapped
        => /\ result.tag = "return" => result.value.cls \in ClosedKinds
           /\ (ErrorTypeHeader \in KnownStrs /\ Extracts(body_bytes))
                  => result = Return(Exc(ErrorTypeHeader.v[1],
                                         <<ExpectedMessage(body_bytes)>>))

\* the code LimitExceededException with body {"message": "lower"} has been
\* mapped to LimitExceededException("lower")
C5_Witness ==
    /\ Mapped
    /\ ErrorTypeHeader = S("LimitExceededException")
    /\ body_bytes = Json(PDict([message |-> S("lower")]))
    /\ result = Return(Exc("LimitExceededException", <<S("lower")>>))

\* what the code compares with the kind table: the header value up to its
\* first ":"
TruncatedCode == PStr(split_first(ErrorTypeHeader.v))

\* C6 as claimed: for every error code that matches no entry of the kind
\* table (including codes with a colon-suffixed detail), the exception the
\* mapper returns has kind Unknown and carries the original error-code string
\* and the HTTP status code; with an unparsable body it also carries the
\* generic fallback message.
C6_UnknownCarriesOriginalCode ==
    (Mapped /\ ErrorTypeHeader # None /\ TruncatedCode \notin KnownStrs
       /\ result.tag = "return")
        => /\ result.value.cls = "UnknownServiceException"
           /\ result.value.args[1] = http_response.status_code
           /\ result.value.args[2] = ErrorTypeHeader
           /\ body_bytes.form = "text" => result.value.args[3] = GenericErrorMessage

\* C6 as amended: for every error code that, cut at its first ":", matches
\* no entry of the kind table, every exception the mapper returns has kind
\* Unknown and carries the HTTP status code and the error code cut at its
\* first ":" (the original string only when it holds no ":"); with a body
\* that is text but no JSON the mapper returns it with the generic fallback
\* message.
C6_UnknownCarriesTruncatedCode ==
    (Mapped /\ ErrorTypeHeader # None /\ TruncatedCode \notin KnownStrs)
        => /\ result.tag = "return"
                => /\ result.value.cls = "UnknownServiceException"
                   /\ result.value.args[1] = http_response.status_code
                   /\ result.value.args[2] = TruncatedCode
                   /\ ":" \notin {ErrorTypeHeader.v[i] : i \in DOMAIN ErrorTypeHeader.v}
                          => result.value.args[2] = ErrorTypeHeader
           /\ body_bytes.form = "text"
                => result = Return(Exc("UnknownServiceException",
                                       <<http_response.status_code, TruncatedCode,
                                         GenericErrorMessage>>))

\* the code "TotallyNovelError:detail" with a body that is no JSON has been
\* mapped to Unknown carrying "TotallyNovelError"
C6_Witness ==
    /\ Mapped
    /\ ErrorTypeHeader = PStr(<<"TotallyNovelError", ":", "detail">>)
    /\ body_bytes = NotJson
    /\ result = Return(Exc("UnknownServiceException",
                           <<http_response.status_code, S("TotallyNovelError"),
                             GenericErrorMessage>>))

\* the header value is a known code followed by ":" and any suffix
HasColonSuffix(h, k) == Len(h.v) >= 2 /\ h.v[1] = k /\ h.v[2] = ":"

\* the header value differs from a known code in letter case only
DiffersInCaseOnly(h) ==
    h \notin KnownStrs /\ \E k \in KnownCodes : Lower(h.v) = Lower(<<k>>)

\* C7: the lookup is case-sensitive and reads only the part of the
\* x-amzn-errortype value before the first ":": for every known code K and
\* suffix s the value K:s has the outcome of K itself and classifies to the
\* kind K, and a value that differs from a known code in letter case only
\* classifies as Unknown.
C7_LookupTruncatesAndIsCaseSensitive ==
    (Mapped /\ ErrorTypeHeader # None)
        => /\ \A k \in KnownCodes :
                 HasColonSuffix(ErrorTypeHeader, k)
                    => /\ result = parse_exception(
                                      [http_response EXCEPT
                                          !.headers = Hdr("x-amzn-errortype", S(k))],
                                      body_bytes)
                       /\ Extracts(body_bytes)
                             => result = Return(Exc(k, <<ExpectedMessage(body_bytes)>>))
           /\ (DiffersInCaseOnly(ErrorTypeHeader) /\ Extracts(body_bytes))
                 => /\ result.tag = "return"
                    /\ result.value.cls = "UnknownServiceException"

\* "BadRequestException:detail" has been classified as BadRequestException
C7_Witness ==
    /\ Mapped
    /\ ErrorTypeHeader = PStr(<<"BadRequestException", ":", "detail">>)
    /\ result.tag = "return"
    /\ result.value.cls = "BadRequestException"

\* C8: for every body (a JSON object, JSON of another shape, text that is no
\* JSON, undecodable bytes) the message extraction never raises: it yields
\* the value under Message if present, else the value under message, else
\* the generic message, and parse_exception returns a ServiceException.
C8_MessageExtractionNeverRaises ==
    Mapped
        => /\ _get_error_message(body_bytes) = Return(ExpectedMessage(body_bytes))
           /\ result.tag = "return"
           /\ result.value.cls \in ExceptionClasses
           /\ MessageOf(result.value) = ExpectedMessage(body_bytes)

\* the in-stream path on the same type name and the same bytes
InStream == parse(Frame(S("exception"), None, ErrorTypeHeader, body_bytes))

\* C9: the HTTP-level path and the in-stream path are equivalent
\* classifiers: whenever both produce a ServiceException for the same type
\* name and the same body, it has the same kind and the same message.
C9_HttpAndInStreamAgree ==
    (/\ Mapped
     /\ ErrorTypeHeader # None
     /\ result.tag = "return"
     /\ InStream.tag = "raise"
     /\ InStream.exc.cls \in ExceptionClasses)
        => /\ InStream.exc.cls = result.value.cls
           /\ MessageOf(InStream.exc) = MessageOf(result.value)

\* the frame is a TranscriptEvent whose payload holds a list under
\* Transcript.Results
HasResultsList ==
    /\ MessageType = S("event")
    /\ EventType = S("TranscriptEvent")
    /\ IsJsonObject(raw_event.payload)
    /\ "Transcript" \in DOMAIN raw_event.payload.doc.v
    /\ raw_event.payload.doc.v["Transcript"].t = "dict"
    /\ "Results" \in DOMAIN raw_event.payload.doc.v["Transcript"].v
    /\ raw_event.payload.doc.v["Transcript"].v["Results"].t = "list"

PayloadResults == raw_event.payload.doc.v["Transcript"].v["Results"].v

\* C10: for a TranscriptEvent frame, parse yields a TranscriptEvent whose
\* results hold exactly one Result per element of the payload's
\* Transcript.Results, in payload order; the payload
\* {"Transcript": {"Results": []}} yields an empty results list.
C10_OneResultPerElementInOrder ==
    (Parsed /\ HasResultsList)
        => /\ (\A i \in DOMAIN PayloadResults : _parse_result(PayloadResults[i]).tag = "return")
                => /\ result.tag = "return"
                   /\ result.value.cls = "TranscriptEvent"
                   /\ result.value.transcript.results.t = "list"
                   /\ Len(result.value.transcript.results.v) = Len(PayloadResults)
                   /\ \A i \in DOMAIN PayloadResults :
                         /\ result.value.transcript.results.v[i].cls = "Result"
                         /\ result.value.transcript.results.v[i].result_id
                               = PayloadResults[i].v["ResultId"]
                         /\ result.value.transcript.results.v[i]
                               = _parse_result(PayloadResults[i]).value
           /\ PayloadResults = <<>>
                => result = Return([t |-> "obj", cls |-> "TranscriptEvent",
                                    transcript |-> [t |-> "obj", cls |-> "Transcript",
                                                    results |-> PList(<<>>)]])

\* a payload with the results r2, r1 has been parsed into two Results with
\* these ids, in this order
C10_Witness ==
    /\ Parsed
    /\ HasResultsList
    /\ Len(PayloadResults) = 2
    /\ PayloadResults[1].t = "dict" /\ PayloadResults[1].v["ResultId"] = S("r2")
    /\ PayloadResults[2].t = "dict" /\ PayloadResults[2].v["ResultId"] = S("r1")
    /\ result.tag = "return"
    /\ Len(result.value.transcript.results.v) = 2
    /\ result.value.transcript.results.v[1].result_id = S("r2")
    /\ result.value.transcript.results.v[2].result_id = S("r1")

\* the frame is an event of a recognized type
IsRecognizedEvent == MessageType = S("event") /\ EventType \in RecognizedEventTypes

\* the documents of the inputs in which a present key holds a value of
\* another JSON type than the service's schema gives it
IllTypedDocs ==
    {d \in TranscriptDocs :
        \/ d.v["Transcript"].t # "dict"
        \/ /\ "Results" \in DOMAIN d.v["Transcript"].v
           /\ \/ d.v["Transcript"].v["Results"].t # "list"
              \/ \E i \in DOMAIN d.v["Transcript"].v["Results"].v :
                    d.v["Transcript"].v["Results"].v[i].t # "dict"}

\* every present key of the payload holds a value of its schema's type: the
\* payload differs from a complete one in absent keys only
OnlyKeysAbsent ==
    IsJsonObject(raw_event.payload) /\ raw_event.payload.doc \notin IllTypedDocs

\* C11: for each known event type and every JSON-object payload in which any
\* subset of keys is absent at any nesting level, parse succeeds without
\* error, and an absent top-level section is unset in the event.
C11_NullTolerantAtEveryLevel ==
    (Parsed /\ IsRecognizedEvent /\ OnlyKeysAbsent)
        => /\ result.tag = "return"
           /\ (EventType = S("TranscriptEvent")
                  /\ "Transcript" \notin DOMAIN raw_event.payload.doc.v)
                 => result.value.transcript = None

\* the three states of an optional list: no key in the node leaves the
\* attribute unset, a list under the key gives a list of the same length
ThreeStates(node, key, parsed) ==
    /\ key \notin DOMAIN node.v => parsed = None
    /\ (key \in DOMAIN node.v /\ node.v[key].t = "list")
          => /\ parsed.t = "list"
             /\ Len(parsed.v) = Len(node.v[key].v)

\* the list under key, empty when the node has none
ListAt(node, key) ==
    IF key \in DOMAIN node.v /\ node.v[key].t = "list" THEN node.v[key].v ELSE <<>>

\* the three states hold for the entities of an Alternative
AlternativeKeepsThreeStates(node, alt) ==
    /\ ThreeStates(node, "Entities", alt.entities)
    /\ \A k \in DOMAIN ListAt(node, "Entities") :
          alt.entities.v[k] = _parse_entity(ListAt(node, "Entities")[k]).value

\* the three states hold for the alternatives and the language
\* identification of a Result, and for the entities of its alternatives
ResultKeepsThreeStates(node, res) ==
    /\ ThreeStates(node, "Alternatives", res.alternatives)
    /\ ThreeStates(node, "LanguageIdentification", res.language_identification)
    /\ \A j \in DOMAIN ListAt(node, "Alternatives") :
          /\ res.alternatives.v[j].transcript
                = G(ListAt(node, "Alternatives")[j], "Transcript")
          /\ AlternativeKeepsThreeStates(ListAt(node, "Alternatives")[j],
                                         res.alternatives.v[j])
    /\ \A j \in DOMAIN ListAt(node, "LanguageIdentification") :
          res.language_identification.v[j]
             = _parse_language_with_score(ListAt(node, "LanguageIdentification")[j]).value

\* the three states hold for the items, entities and issues of an
\* UtteranceEvent
UtteranceKeepsThreeStates(node, ev) ==
    /\ ThreeStates(node, "Items", ev.items)
    /\ ThreeStates(node, "Entities", ev.entities)
    /\ ThreeStates(node, "IssuesDetected", ev.issues_detected)
    /\ \A j \in DOMAIN ListAt(node, "Items") :
          ev.items.v[j] = _parse_call_analytics_item(ListAt(node, "Items")[j]).value
    /\ \A j \in DOMAIN ListAt(node, "Entities") :
          ev.entities.v[j]
             = _parse_call_analytics_entity(ListAt(node, "Entities")[j]).value
    /\ \A j \in DOMAIN ListAt(node, "IssuesDetected") :
          ev.issues_detected.v[j]
             = _parse_issue_detected(ListAt(node, "IssuesDetected")[j]).value

\* C12: in every event parse returns, Result.alternatives,
\* Result.language_identification, Alternative.entities and the items,
\* entities and issues_detected of an UtteranceEvent are unset when the key
\* is absent, an empty sequence when the list is empty, and the n parsed
\* elements in payload order when the list has n elements.
C12_OptionalListsKeepThreeStates ==
    (Parsed /\ IsRecognizedEvent /\ result.tag = "return")
        => /\ EventType = S("UtteranceEvent")
                => UtteranceKeepsThreeStates(raw_event.payload.doc, result.value)
           /\ (EventType = S("TranscriptEvent") /\ HasResultsList)
                => \A i \in DOMAIN PayloadResults :
                      ResultKeepsThreeStates(PayloadResults[i],
                                             result.value.transcript.results.v[i])

\* the results r6, r3 have been parsed: r6 with an alternative whose entities
\* are empty, one with the entities NAME, EMAIL in this order, and an empty
\* language identification; r3 with alternatives and language
\* identification unset
C12_Witness ==
    /\ Parsed
    /\ HasResultsList
    /\ Len(PayloadResults) = 2
    /\ PayloadResults[1].t = "dict" /\ PayloadResults[1].v["ResultId"] = S("r6")
    /\ PayloadResults[2].t = "dict" /\ PayloadResults[2].v["ResultId"] = S("r3")
    /\ result.tag = "return"
    /\ LET r6 == result.value.transcript.results.v[1]
           r3 == result.value.transcript.results.v[2]
       IN  /\ r6.language_identification = PList(<<>>)
           /\ Len(r6.alternatives.v) = 2
           /\ r6.alternatives.v[1].entities = PList(<<>>)
           /\ Len(r6.alternatives.v[2].entities.v) = 2
           /\ r6.alternatives.v[2].entities.v[1].type = S("NAME")
           /\ r6.alternatives.v[2].entities.v[2].type = S("EMAIL")
           /\ r3.alternatives = None
           /\ r3.language_identification = None

\* the Alternatives of the i-th result of the payload
PayloadAlternatives(i) == ListAt(PayloadResults[i], "Alternatives")

\* C13: for a TranscriptEvent frame whose results and alternatives are JSON
\* objects, with or without an Items key, parse produces one Alternative per
\* alternative object, and the items of each are a sequence (possibly
\* empty), never unset.
C13_AlternativeItemsAlwaysPresent ==
    (Parsed /\ HasResultsList /\ OnlyKeysAbsent)
        => /\ result.tag = "return"
           /\ \A i \in DOMAIN PayloadResults :
                 \A j \in DOMAIN PayloadAlternatives(i) :
                    result.value.transcript.results.v[i].alternatives.v[j].items.t = "list"

\* C14: for every event frame with a recognized :event-type, whatever parse
\* returns is one event object (no sequence of events, no None) and its
\* variant is the one the :event-type header names.
C14_OneEventOfTheNamedVariant ==
    (Parsed /\ IsRecognizedEvent /\ result.tag = "return")
        => /\ result.value.t = "obj"
           /\ result.value.cls \in {"TranscriptEvent", "UtteranceEvent", "CategoryEvent"}
           /\ S(result.value.cls) = EventType

\* a CategoryEvent frame has been parsed into a CategoryEvent, an
\* UtteranceEvent frame with the payload {} into an UtteranceEvent
C14_Witness ==
    /\ Parsed
    /\ MessageType = S("event")
    /\ \/ /\ EventType = S("CategoryEvent")
          /\ result.tag = "return"
          /\ result.value.cls = "CategoryEvent"
       \/ /\ EventType = S("UtteranceEvent")
          /\ raw_event.payload = Json(PDict(EmptyDict))
          /\ result.tag = "return"
          /\ result.value.cls = "UtteranceEvent"

\* the frame is a CategoryEvent whose payload holds an object under
\* MatchedDetails
HasMatchedDetails ==
    /\ MessageType = S("event")
    /\ EventType = S("CategoryEvent")
    /\ IsJsonObject(raw_event.payload)
    /\ "MatchedDetails" \in DOMAIN raw_event.payload.doc.v
    /\ raw_event.payload.doc.v["MatchedDetails"].t = "dict"

PayloadMatchedDetails == raw_event.payload.doc.v["MatchedDetails"].v

\* C15: for a CategoryEvent frame, the key set of the matched_details parse
\* returns equals the key set of the payload's MatchedDetails, and the value
\* under each key is the PointsOfInterest parsed from that key's payload
\* value: one TimestampRange per element of its TimestampRanges, in order.
C15_MatchedDetailsKeepsEveryKey ==
    (Parsed /\ HasMatchedDetails /\ result.tag = "return")
        => /\ result.value.matched_details.t = "dict"
           /\ DOMAIN result.value.matched_details.v = DOMAIN PayloadMatchedDetails
           /\ \A k \in DOMAIN PayloadMatchedDetails :
                 LET poi == result.value.matched_details.v[k]
                     ranges == PayloadMatchedDetails[k].v["TimestampRanges"].v
                 IN  /\ poi = _parse_points_of_interest(PayloadMatchedDetails[k]).value
                     /\ poi.cls = "PointsOfInterest"
                     /\ Len(poi.timestamp_ranges.v) = Len(ranges)
                     /\ \A i \in DOMAIN ranges :
                           /\ poi.timestamp_ranges.v[i].begin_offset_millis
                                 = ranges[i].v["BeginOffsetMillis"]
                           /\ poi.timestamp_ranges.v[i].end_offset_millis
                                 = ranges[i].v["EndOffsetMillis"]

\* a payload with the MatchedDetails keys c1 (one range) and c2 (two ranges)
\* has been parsed into a mapping with exactly these keys and ranges
C15_Witness ==
    /\ Parsed
    /\ HasMatchedDetails
    /\ DOMAIN PayloadMatchedDetails = {"c1", "c2"}
    /\ result.tag = "return"
    /\ DOMAIN result.value.matched_details.v = {"c1", "c2"}
    /\ Len(result.value.matched_details.v["c1"].timestamp_ranges.v) = 1
    /\ Len(result.value.matched_details.v["c2"].timestamp_ranges.v) = 2
    /\ result.value.matched_details.v["c2"].timestamp_ranges.v[2].begin_offset_millis
          = PNum(7)

\* the send calls that put a frame on the outbound half, in call order
Accepted == SelectSeq(sends, LAMBDA s : s.outcome.tag = "return")

\* the frame of an accepted send
FrameOf(s) == encode(s.outcome.value.headers, s.outcome.value.payload).value

\* the :content-type of each kind of outbound event
ContentTypeOf(kind) ==
    IF kind = "AudioEvent" THEN S("application/octet-stream") ELSE S("application/json")

\* the frame holds the header name with the value
FrameHasHeader(frame, name, value) ==
    \E i \in DOMAIN frame : frame[i] = U("header", <<name, "string", value.v>>)

C17_OutboundFramesInSendOrder ==
    wire \o buffer \o pending
        = Flatten([i \in DOMAIN Accepted |-> FrameOf(Accepted[i])])

\* two different events have been sent, the second write was suspended on a
\* full buffer, and the transport has taken both frames, first the first
C17_Witness ==
    /\ Len(sends) = 2
    /\ Len(Accepted) = 2
    /\ sends[1].event # sends[2].event
    /\ send_pc = "idle"
    /\ buffer = <<>>
    /\ wire = FrameOf(sends[1]) \o FrameOf(sends[2])

\* C20: the buffer never holds more than Capacity units; a write issued on a
\* full buffer puts nothing in it and is suspended, and a write suspended on
\* a full buffer stays suspended, with all its units, until a read has taken
\* at least one unit.
C20_WriteSuspendsAtCapacity ==
    /\ [](Len(buffer) <= Capacity)
    /\ [][(Len(buffer) = Capacity /\ send_pc' # send_pc)
              => (send_pc' = "writing" /\ buffer' = buffer)]_vars
    /\ [][(Len(buffer) = Capacity /\ send_pc = "writing")
              => (/\ send_pc' = "writing"
                  /\ pending' = pending
                  /\ (buffer' # buffer => Len(wire') > Len(wire)))]_vars

\* Capacity units have been written with no read, and the write is suspended
C20_Witness ==
    /\ wire = <<>>
    /\ Len(buffer) = Capacity
    /\ send_pc = "writing"
    /\ pending # <<>>

\* the places of yielded that hold an item of the k-th frame
ItemsOf(k) == {i \in DOMAIN yielded : yielded[i].frame = k}

\* the item is an event
IsEventItem(y) == y.item.tag = "return"

\* C18 as claimed: the items are yielded in the order of their frames, the
\* frames decoded are the complete frames of the units delivered (a partial
\* frame is retained and yields nothing), and every complete frame yields
\* exactly one event or one exception.
C18_OneItemPerCompleteFrame ==
    /\ \A i, j \in DOMAIN yielded : i < j => yielded[i].frame < yielded[j].frame
    /\ SubSeq(stream, 1, delivered)
          = Flatten([k \in DOMAIN decoded |-> Encoded(decoded[k])]) \o retained
    /\ \A k \in DOMAIN decoded : Cardinality(ItemsOf(k)) = 1

\* C18 as amended: the items are yielded in the order of their frames, at
\* most one per frame; the frames decoded are the complete frames of the
\* units delivered, however the transport chunks them, and a partial frame
\* is retained and yields nothing; a complete frame yields exactly what the
\* dispatcher makes of it: its one event, of the variant its :event-type
\* names, or its one exception, and nothing when the dispatcher maps it to
\* no event.
C18_InboundItemsInFrameOrder ==
    /\ \A i, j \in DOMAIN yielded : i < j => yielded[i].frame < yielded[j].frame
    /\ SubSeq(stream, 1, delivered)
          = Flatten([k \in DOMAIN decoded |-> Encoded(decoded[k])]) \o retained
    /\ \A i \in DOMAIN yielded :
          \/ yielded[i].frame \in DOMAIN decoded
          \/ /\ yielded[i].frame = Len(decoded) + 1
             /\ yielded[i].item = Raise("ChecksumMismatch")
    /\ \A k \in DOMAIN decoded :
          /\ Cardinality(ItemsOf(k)) <= 1
          /\ Cardinality(ItemsOf(k)) = IF parse(decoded[k]) = Return(None) THEN 0 ELSE 1
          /\ \A i \in ItemsOf(k) :
                /\ yielded[i].item = parse(decoded[k])
                /\ IsEventItem(yielded[i])
                      => S(yielded[i].item.value.cls) = decoded[k].headers[":event-type"]

\* the first frame is complete and has yielded its event, a TranscriptEvent;
\* units of the second frame are retained and have yielded nothing
C18_Witness ==
    /\ in_pc = "reading"
    /\ Len(decoded) = 1
    /\ retained # <<>>
    /\ delivered < Len(stream)
    /\ Len(yielded) = 1
    /\ yielded[1].frame = 1
    /\ IsEventItem(yielded[1])
    /\ yielded[1].item.value.cls = "TranscriptEvent"

\* the kinds of error that end the inbound sequence
TerminalErrors == ExceptionClasses \cup {"ChecksumMismatch"}

\* C19: the inbound sequence ends by exhaustion or by one terminal error, a
\* ServiceException or ChecksumMismatch, which is the last item observed;
\* once it has failed or ended no item is added; and at the end every frame
\* of a recognized event type has yielded an item.
C19_DefiniteEnd ==
    /\ \A i \in DOMAIN yielded :
          yielded[i].item.tag = "raise"
             => /\ i = Len(yielded)
                /\ in_pc \in {"failed", "done"}
                /\ yielded[i].item.exc.cls \in TerminalErrors
    /\ in_pc = "failed" => yielded[Len(yielded)].item.tag = "raise"
    /\ in_pc = "done"
          => \A k \in DOMAIN decoded :
                (/\ HeaderGet(decoded[k].headers, ":message-type", None) = S("event")
                 /\ HeaderGet(decoded[k].headers, ":event-type", None)
                       \in RecognizedEventTypes)
                   => ItemsOf(k) # {}


\* the event passes its encoder and the frame codec, so that sending it
\* issues a write
Encodes(event) ==
    LET serialized == event_serializer_serialize(event)
    IN  /\ serialized.tag = "return"
        /\ encode(serialized.value.headers, serialized.value.payload).tag = "return"

\* C21: once the buffer is closed it stays closed; every read then takes
\* units from the front of what the buffer held, in order, and nothing is
\* added; the empty end-of-stream read happens only when the buffer is
\* closed and empty, and from then on every read is the empty read again;
\* every write issued after the close fails with StreamClosed and leaves the
\* buffer unchanged.
C21_ClosedStreamDrainsThenEnds ==
    /\ [][closed => closed']_vars
    /\ [][closed => \E n \in 0..Len(buffer) :
                       /\ wire' = wire \o SubSeq(buffer, 1, n)
                       /\ buffer' = SubSeq(buffer, n + 1, Len(buffer))]_vars
    /\ [](eof => (closed /\ buffer = <<>>))
    /\ [][eof => (eof' /\ buffer' = <<>> /\ wire' = wire)]_vars
    /\ [][(closed /\ sends' # sends)
             => (/\ Len(sends') = Len(sends) + 1
                 /\ sends'[Len(sends')].outcome.tag = "raise"
                 /\ Encodes(sends'[Len(sends')].event)
                       => sends'[Len(sends')].outcome = Raise("StreamClosed")
                 /\ buffer' = buffer
                 /\ pending' = pending
                 /\ send_pc' = send_pc)]_vars

\* a frame was written, the buffer closed, a later write refused with
\* StreamClosed, and the transport has read the whole frame and then the end
\* of the stream
C21_Witness ==
    /\ closed
    /\ eof
    /\ Len(sends) = 2
    /\ sends[1].outcome.tag = "return"
    /\ sends[2].outcome = Raise("StreamClosed")
    /\ buffer = <<>>
    /\ wire = FrameOf(sends[1])


\* the item the dispatcher makes of the k-th decoded frame
ItemFor(k) ==
    LET parsed == parse(decoded[k])
    IN  IF parsed = Return(None) THEN <<>> ELSE <<[frame |-> k, item |-> parsed]>>

\* the consumer has observed the items of all decoded frames in frame order,
\* and after them at most the checksum error of the frame that follows
DeliveredInOrder ==
    LET items == Flatten([k \in DOMAIN decoded |-> ItemFor(k)])
    IN  \/ yielded = items
        \/ yielded = Append(items, [frame |-> Len(decoded) + 1,
                                    item |-> Raise("ChecksumMismatch")])

C23_CodecRoundTrip ==
    codec_pc = "decoded"
        => /\ CodecEncoded.tag = "return"
           /\ codec_buf = CodecEncoded.value
           /\ codec_calls = <<Return([frames |-> <<codec_in>>,
                                      consumed |-> Len(CodecEncoded.value)])>>

\* a frame with a byte-array, a string and an integer header and one payload
\* byte, at the size cap, has gone through encode and decode
C23_Witness ==
    /\ codec_pc = "decoded"
    /\ DOMAIN codec_in.headers = {"blob", "name", "count"}
    /\ codec_in.headers["count"] = PNum(0)
    /\ codec_in.payload = PBytes(<<1>>)
    /\ Len(codec_buf) = MaxFrameLen
    /\ codec_calls[1].tag = "return"
    /\ Len(codec_calls[1].value.frames) = 1

\* C24: when the encoding of a frame is given to decode unit by unit, the
\* caller presenting what it retained and the new unit, every call returns
\* (Incomplete is no error of the call); every call made before the last
\* unit is present returns no frame and consumes nothing, and the call made
\* with all units present returns exactly the one frame and consumes all.
C24_PartialDelivery ==
    codec_pc \in {"feeding", "fed"}
        => /\ codec_pc = "fed" <=> Len(codec_calls) = Len(CodecEncoded.value)
           /\ \A i \in DOMAIN codec_calls :
                 /\ codec_calls[i].tag = "return"
                 /\ IF i < Len(CodecEncoded.value)
                    THEN codec_calls[i].value = [frames |-> <<>>, consumed |-> 0]
                    ELSE codec_calls[i].value
                            = [frames |-> <<codec_in>>,
                               consumed |-> Len(CodecEncoded.value)]

\* a frame of two headers and two payload bytes was fed unit by unit: seven
\* calls returned nothing, the eighth the frame
C24_Witness ==
    /\ codec_pc = "fed"
    /\ Len(codec_calls) = 8
    /\ Cardinality(DOMAIN codec_in.headers) = 2
    /\ codec_in.payload = PBytes(<<1, 0>>)
    /\ codec_calls[7].value.frames = <<>>
    /\ codec_calls[8].value.frames = <<codec_in>>


\* C25: with a transport that keeps reading and suspended writes woken when
\* there is room, every suspended write eventually completes; and once the
\* producer has closed, the transport eventually has read every unit of
\* every accepted frame and then observes the empty end-of-stream read.
C25_NoDeadlockBetweenRoles ==
    /\ (send_pc = "writing") ~> (send_pc = "idle")
    /\ closed ~> (/\ eof
                  /\ buffer = <<>>
                  /\ wire = Flatten([i \in DOMAIN Accepted |-> FrameOf(Accepted[i])]))

\* two frames, each longer than the buffer, were written through suspended
\* writes, the producer closed, and the transport has read both and the end
\* of the stream
C25_Witness ==
    /\ closed
    /\ eof
    /\ send_pc = "idle"
    /\ Len(Accepted) = 2
    /\ Len(FrameOf(Accepted[1])) > Capacity
    /\ Len(FrameOf(Accepted[2])) > Capacity
    /\ Len(wire) = Len(FrameOf(Accepted[1])) + Len(FrameOf(Accepted[2]))


\* C26: for every send of an audio event and every chunk b the event can
\* have been built from, the payload AudioEventSerializer.serialize produces
\* is b itself, the same bytes in the same number, and the empty payload
\* when b is None; an accepted send is logged with this payload.
C26_AudioChunksAreOpaque ==
    \A i \in DOMAIN sends :
        sends[i].event.cls = "AudioEvent"
            => /\ \E b \in AudioChunks : sends[i].event = AudioEvent(b)
               /\ \A b \in AudioChunks :
                     sends[i].event = AudioEvent(b)
                        => LET out == AudioEventSerializer_serialize(sends[i].event)
                               expected == IF b = None THEN PBytes(<<>>) ELSE b
                           IN  /\ out.tag = "return"
                               /\ out.value.payload = expected
                               /\ Len(out.value.payload.v) = Len(expected.v)
                               /\ sends[i].outcome.tag = "return"
                                     => sends[i].outcome.value.payload = expected

\* an audio event built from None and one built from a one-byte chunk have
\* been sent and accepted, the first with the empty payload, the second with
\* the chunk as payload
C26_Witness ==
    /\ Len(sends) = 2
    /\ sends[1].event = AudioEvent(None)
    /\ sends[1].outcome.tag = "return"
    /\ sends[1].outcome.value.payload = PBytes(<<>>)
    /\ sends[2].event = AudioEvent(PBytes(<<0>>))
    /\ sends[2].outcome.tag = "return"
    /\ sends[2].outcome.value.payload = PBytes(<<0>>)


\* C27: for every frame whose :message-type is absent or is any value other
\* than event, error and exception (Event with a capital included), whatever
\* its event type and payload, parse returns no event and raises nothing:
\* the payload is not parsed, so one that is no JSON or no text cannot fail
\* the call.
C27_OtherMessageTypeIsNoOp ==
    (Parsed /\ MessageType \notin {S("event"), S("error"), S("exception")})
        => result = Return(None)

\* parse has returned None for a frame without :message-type whose event
\* type is a recognized one and whose payload is no text
C27_Witness ==
    /\ Parsed
    /\ MessageType = None
    /\ EventType = S("TranscriptEvent")
    /\ raw_event.payload = Undecodable
    /\ result = Return(None)


\* the body is a JSON object with a Message or a message key
HasMessageKey(b) ==
    IsJsonObject(b) /\ ({"Message", "message"} \cap DOMAIN b.doc.v) # {}

\* C28: for every response without an x-amzn-errortype header, every
\* exception parse_exception returns is of kind Unknown and carries the
\* response's status code and the error code "Unknown"; and when the body is
\* a JSON object with a Message or message key, it is returned with the
\* message found under that key (Message before message).
C28_NoErrorTypeHeaderIsUnknown ==
    (Mapped /\ ErrorTypeHeader = None)
        => /\ result.tag = "return"
                => /\ result.value.cls = "UnknownServiceException"
                   /\ result.value.args[1] = http_response.status_code
                   /\ result.value.args[2] = S("Unknown")
           /\ HasMessageKey(body_bytes)
                => result = Return(Exc("UnknownServiceException",
                                       <<http_response.status_code, S("Unknown"),
                                         ExpectedMessage(body_bytes)>>))

\* a response with status 500, no x-amzn-errortype header and the body
\* {"message": "lower"} has been mapped to Unknown carrying 500, "Unknown"
\* and "lower"
C28_Witness ==
    /\ Mapped
    /\ ErrorTypeHeader = None
    /\ http_response.status_code = 500
    /\ body_bytes = Json(PDict([message |-> S("lower")]))
    /\ result = Return(Exc("UnknownServiceException",
                           <<500, S("Unknown"), S("lower")>>))


\* the configuration events sent so far, in call order
ConfigurationsSent ==
    SelectSeq(sends, LAMBDA s : s.event.cls = "ConfigurationEvent")

\* the JSON form of the settings has the two required keys with the values
\* given, and each optional key exactly when its value is set, with it
SettingsForm(settings, form) ==
    /\ form.t = "dict"
    /\ {"OutputLocation", "DataAccessRoleArn"} \subseteq DOMAIN form.v
    /\ DOMAIN form.v \subseteq {"OutputLocation", "DataAccessRoleArn",
                                "OutputEncryptionKMSKeyId", "ContentRedactionOutput"}
    /\ form.v["OutputLocation"] = settings.output_location
    /\ form.v["DataAccessRoleArn"] = settings.data_access_role_arn
    /\ "OutputEncryptionKMSKeyId" \in DOMAIN form.v
          <=> settings.output_encryption_kms_key_id # None
    /\ "OutputEncryptionKMSKeyId" \in DOMAIN form.v
          => form.v["OutputEncryptionKMSKeyId"] = settings.output_encryption_kms_key_id
    /\ "ContentRedactionOutput" \in DOMAIN form.v
          <=> settings.content_redaction_output # None
    /\ "ContentRedactionOutput" \in DOMAIN form.v
          => form.v["ContentRedactionOutput"] = settings.content_redaction_output

\* C29: the JSON form of every configuration event sent has a
\* ChannelDefinitions list with one {ChannelId, ParticipantRole} entry per
\* channel definition, in the order given; it has the key
\* PostCallAnalyticsSettings exactly when settings were given, and in it
\* OutputLocation and DataAccessRoleArn always and OutputEncryptionKMSKeyId
\* and ContentRedactionOutput exactly when their values are set.
C29_ConfigurationEventJsonForm ==
    \A i \in DOMAIN ConfigurationsSent :
        LET event == ConfigurationsSent[i].event
            form == ConfigurationEvent__json__(event)
            channels == event.channel_definitions.v
        IN  /\ form.t = "dict"
            /\ DOMAIN form.v \subseteq {"ChannelDefinitions", "PostCallAnalyticsSettings"}
            /\ "ChannelDefinitions" \in DOMAIN form.v
            /\ form.v["ChannelDefinitions"].t = "list"
            /\ Len(form.v["ChannelDefinitions"].v) = Len(channels)
            /\ \A k \in DOMAIN channels :
                  LET entry == form.v["ChannelDefinitions"].v[k]
                  IN  /\ entry.t = "dict"
                      /\ DOMAIN entry.v = {"ChannelId", "ParticipantRole"}
                      /\ entry.v["ChannelId"] = channels[k].channel_id
                      /\ entry.v["ParticipantRole"] = channels[k].participant_role
            /\ "PostCallAnalyticsSettings" \in DOMAIN form.v
                  <=> event.post_call_analytics_settings # None
            /\ "PostCallAnalyticsSettings" \in DOMAIN form.v
                  => SettingsForm(event.post_call_analytics_settings,
                                  form.v["PostCallAnalyticsSettings"])

\* a configuration event of two channels with settings that set the key but
\* no redaction, and one of two channels without settings, have been sent
C29_Witness ==
    /\ Len(ConfigurationsSent) = 2
    /\ Len(ConfigurationsSent[1].event.channel_definitions.v) = 2
    /\ ConfigurationsSent[1].event.channel_definitions.v[1].channel_id = PNum(1)
    /\ ConfigurationsSent[1].event.post_call_analytics_settings # None
    /\ ConfigurationsSent[1].event.post_call_analytics_settings.output_encryption_kms_key_id
          = S("kms-key")
    /\ ConfigurationsSent[1].event.post_call_analytics_settings.content_redaction_output
          = None
    /\ Len(ConfigurationsSent[2].event.channel_definitions.v) = 2
    /\ ConfigurationsSent[2].event.post_call_analytics_settings = None


\* the value the payload's result object holds under the key, None when it
\* has no such key
PayloadValue(i, key) ==
    IF key \in DOMAIN PayloadResults[i].v THEN PayloadResults[i].v[key] ELSE None

\* C30: every Result of the TranscriptEvent that parse returns has
\* language_code unset, whatever keys its result object in the payload
\* carries (LanguageCode included), and has result_id, start_time, end_time,
\* is_partial and channel_id equal to the payload's values under ResultId,
\* StartTime, EndTime, IsPartial and ChannelId (unset where the key is
\* absent).
C30_ResultLanguageCodeIsUnset ==
    (Parsed /\ HasResultsList /\ result.tag = "return")
        => /\ Len(result.value.transcript.results.v) = Len(PayloadResults)
           /\ \A i \in DOMAIN result.value.transcript.results.v :
                 LET res == result.value.transcript.results.v[i]
                 IN  /\ res.cls = "Result"
                     /\ res.language_code = None
                     /\ res.result_id = PayloadValue(i, "ResultId")
                     /\ res.start_time = PayloadValue(i, "StartTime")
                     /\ res.end_time = PayloadValue(i, "EndTime")
                     /\ res.is_partial = PayloadValue(i, "IsPartial")
                     /\ res.channel_id = PayloadValue(i, "ChannelId")

\* a payload whose first result object carries LanguageCode en-US and whose
\* second carries all five scalar keys has been parsed: the first Result has
\* no language code, the second the five values
C30_Witness ==
    /\ Parsed
    /\ HasResultsList
    /\ result.tag = "return"
    /\ Len(PayloadResults) = 2
    /\ PayloadValue(1, "LanguageCode") = S("en-US")
    /\ result.value.transcript.results.v[1].language_code = None
    /\ result.value.transcript.results.v[1].is_partial = PBool(FALSE)
    /\ result.value.transcript.results.v[2].result_id = S("r1")
    /\ result.value.transcript.results.v[2].start_time = PNum(0)
    /\ result.value.transcript.results.v[2].end_time = PNum(1)
    /\ result.value.transcript.results.v[2].is_partial = PBool(TRUE)
    /\ result.value.transcript.results.v[2].channel_id = S("ch_0")

=============================================================================
